---- MODULE Spec2Model ----
(***************************************************************************)
(* A model of the Neural Feed curation pipeline (route.ts of the feed API): *)
(* candidate discovery, the staged run handler, the content gatherer, the  *)
(* ranker / rebalancer and the in-memory feed cache with its deep-dive     *)
(* lookup.                                                                 *)
(*                                                                         *)
(* Text is modelled as a sequence of tokens (one-character strings, or     *)
(* longer atoms where the code never looks inside them). A URL is a record *)
(* [scheme, host, path] whose host and path are such sequences; the first  *)
(* token of a host is its first character, because the ids the code builds *)
(* from base64 prefixes depend on exactly that much of the URL (the second *)
(* token of an http host is its second character).                         *)
(***************************************************************************)
EXTENDS Integers, Sequences, FiniteSets, TLC

VARIABLES
    cfg,        \* env: [llm, search] - openaiClient non-null, Google keys present
    now,        \* the wall clock, in milliseconds (Date.now())
    ticks,      \* how many times the clock has advanced (bounds the model)
    feedCache,  \* the module-level Map: item id -> [item, profile, name, expires]
    req,        \* per request slot: the request being served
    pc,         \* per request slot: the await the handler is suspended at
    loc,        \* per request slot: the live local variables of the handler
    events,     \* per request slot: the events enqueued on the stream so far
    closed,     \* per request slot: controller.close() has been called
    resp,       \* per request slot: the HTTP response returned to the caller
    posts,      \* how many POST requests have been accepted (bounds the model)
    fnIn,       \* input of the function under test (function-level specifications)
    fnOut       \* its result

vars == <<cfg, now, ticks, feedCache, req, pc, loc, events, closed, resp, posts, fnIn, fnOut>>


(***************************************************************************)
(* Bounds of the model.                                                    *)
(***************************************************************************)
MaxTicks == 3
MaxPosts == 1

(***************************************************************************)
(* Program constants.                                                      *)
(***************************************************************************)
MAX_DOC_SNIPPETS == 20
CANDIDATE_TARGET == 30
FEED_CACHE_TTL == 15 * 60 * 1000
SEARCH_UNIQUE_CAP == 12
HEURISTIC_CAP == 6

(***************************************************************************)
(* Text helpers.                                                           *)
(***************************************************************************)
Range(s) == {s[i] : i \in 1..Len(s)}

IsSpace(c) == c \in {" ", "\t"}

\* String.prototype.toLowerCase on one token
LowerTok(c) ==
    CASE c = "A" -> "a"
      [] c = "L" -> "l"
      [] c = "B" -> "b"
      [] c = "Ada" -> "ada"
      [] c = "G" -> "g"
      [] c = "Agents" -> "agents"
      [] OTHER -> c

toLowerCase(s) == [i \in 1..Len(s) |-> LowerTok(s[i])]

RECURSIVE TrimLeft(_)
TrimLeft(s) == IF s # <<>> /\ IsSpace(Head(s)) THEN TrimLeft(Tail(s)) ELSE s

RECURSIVE TrimRight(_)
TrimRight(s) ==
    IF s # <<>> /\ IsSpace(s[Len(s)]) THEN TrimRight(SubSeq(s, 1, Len(s) - 1)) ELSE s

\* String.prototype.trim
trimMutant(s) == s
trim(s) == TrimRight(TrimLeft(s))

\* value.replace(/\s+/g, '-'): every maximal run of whitespace becomes one '-'
RECURSIVE ReplaceSpaceRuns(_)
ReplaceSpaceRuns(s) ==
    IF s = <<>> THEN <<>>
    ELSE IF IsSpace(Head(s))
         THEN <<"-">> \o ReplaceSpaceRuns(TrimLeft(s))
         ELSE <<Head(s)>> \o ReplaceSpaceRuns(Tail(s))

\* fallbackCandidates: const base = name.toLowerCase().replace(/\s+/g, '-')
Slug(name) == ReplaceSpaceRuns(toLowerCase(name))

\* name.split(/\s+/)[0] ?? name
firstNameFrom(name) ==
    LET i == CHOOSE k \in 1..(Len(name) + 1) :
                 /\ (k = Len(name) + 1 \/ IsSpace(name[k]))
                 /\ \A j \in 1..(k - 1) : ~IsSpace(name[j])
    IN SubSeq(name, 1, i - 1)

(***************************************************************************)
(* URLs.                                                                   *)
(***************************************************************************)
Url(scheme, host, path) == [scheme |-> scheme, host |-> host, path |-> path]

GithubHost == <<"g", "ithub.com">>
LinkedinHost == <<"l", "inkedin.com">>

\* host.includes(needle) for a two-token needle
HostIncludes(host, needle) ==
    \E i \in 1..Len(host) : i + Len(needle) - 1 <= Len(host)
                            /\ SubSeq(host, i, i + Len(needle) - 1) = needle

\* new URL(x) succeeds
IsParsable(u) == u.scheme \in {"http", "https"} /\ u.host # <<>>

UrlLower(u) == Url(u.scheme, toLowerCase(u.host), toLowerCase(u.path))

\* The high nibble of the first byte of a token, as the base64 digit it yields
\* after the two low bits of '/' (0x2f): a-o -> '2', p-z -> '3', digits -> 'z',
\* A-O -> '0', P-Z -> '1', '-' and '.' -> 'y'.
NibbleDigit(c) ==
    IF c \in {"p", "q", "r", "s", "t", "u", "v", "w", "x", "y", "z"} THEN "3"
    ELSE IF c \in {"0", "1", "2", "3", "4", "5", "6", "7", "8", "9"} THEN "z"
    ELSE IF c \in {"A", "B", "C", "D", "E", "F", "G", "H", "I", "J", "K", "L", "M",
                   "N", "O"} THEN "0"
    ELSE IF c \in {"P", "Q", "R", "S", "T", "U", "V", "W", "X", "Y", "Z"} THEN "1"
    ELSE IF c \in {"-", "."} THEN "y"
    ELSE "2"

\* Buffer.from(url).toString('base64').slice(0, 10): 60 bits, i.e. the first
\* seven bytes and the high nibble of the eighth. "https://" is eight bytes.
Base64Head10(u) ==
    IF u.scheme = "https" THEN <<"aHR0cHM6Ly">>
    ELSE IF u.scheme = "http"
         THEN <<"aHR0cDovL" , IF u.host = <<>> THEN "w" ELSE NibbleDigit(Head(u.host))>>
         ELSE <<"raw">> \o u.path

\* Buffer.from(url).toString('base64').slice(0, 12): exactly nine bytes.
Base64Head12(u) ==
    IF u.scheme = "https"
    THEN <<"aHR0cHM6Ly", IF u.host = <<>> THEN "" ELSE Head(u.host)>>
    ELSE IF u.scheme = "http"
         THEN <<"aHR0cDovL">> \o SubSeq(u.host, 1, 2)
         ELSE <<"raw">> \o u.path

(***************************************************************************)
(* Candidate discovery.                                                    *)
(***************************************************************************)
NoUrl == Url("", <<>>, <<>>)          \* undefined / empty string (falsy)

Candidate(id, source, profileUrl, supportUrls, mergedFrom) ==
    [id |-> id, source |-> source, profileUrl |-> profileUrl,
     supportUrls |-> supportUrls, mergedFrom |-> mergedFrom]

fallbackCandidates(name) ==
    LET base == Slug(name)
        gh   == Url("https", GithubHost, base)
        site == Url("https", base \o <<".com">>, <<>>)
    IN << Candidate(base \o <<"-gh">>, "github", gh, <<gh>>, <<>>),
          Candidate(base \o <<"-site">>, "site", site, <<site>>, <<>>) >>

\* the loop of fetchSearchResults over response.items
RECURSIVE UniqueResults(_, _)
UniqueResults(items, unique) ==
    IF items = <<>> THEN unique
    ELSE LET link == Head(items)
         IN IF link = NoUrl \/ ~IsParsable(link) \/ HostIncludes(link.host, LinkedinHost)
            THEN UniqueResults(Tail(items), unique)
            ELSE LET u2 == IF link \in Range(unique) THEN unique ELSE Append(unique, link)
                 IN IF Len(u2) >= SEARCH_UNIQUE_CAP THEN u2
                    ELSE UniqueResults(Tail(items), u2)

\* A remote answer is a record with a kind: "throw" (network error, timeout,
\* non-2xx status, unparsable body) or "ok" with the content of the response.
Throw == [kind |-> "throw"]
Failed(answer) == answer.kind = "throw"

\* search: Throw or [kind |-> "ok", items |-> the links of the response, typed];
\* typed = FALSE when the first item has a snippet that is no string
fetchSearchResults(haveKeys, search) ==
    IF ~haveKeys THEN <<>>
    ELSE IF Failed(search) THEN <<>>
    ELSE UniqueResults(search.items, <<>>)

tagForUrl(u) ==
    IF IsParsable(u) /\ HostIncludes(toLowerCase(u.host), GithubHost) THEN "github" ELSE "site"

\* the while loop of dedupeCandidates that looks for a free id
RECURSIVE FreeId(_, _, _)
FreeId(base, suffix, seenIds) ==
    LET id == IF suffix = 1 THEN base ELSE base \o <<"-", ToString(suffix)>>
    IN IF id \in seenIds THEN FreeId(base, suffix + 1, seenIds) ELSE id

RECURSIVE DedupeLoop(_, _, _, _)
DedupeLoop(candidates, seenUrls, seenIds, unique) ==
    IF candidates = <<>> THEN unique
    ELSE LET c      == Head(candidates)
             urlKey == UrlLower(c.profileUrl)
         IN IF urlKey \in seenUrls
            THEN DedupeLoop(Tail(candidates), seenUrls, seenIds, unique)
            ELSE LET id == FreeId(c.id, 1, seenIds)
                 IN DedupeLoop(Tail(candidates), seenUrls \cup {urlKey},
                               seenIds \cup {id}, Append(unique, [c EXCEPT !.id = id]))

RECURSIVE DedupeExactLoop(_, _, _, _)
DedupeExactLoop(candidates, seenUrls, seenIds, unique) ==
    IF candidates = <<>> THEN unique
    ELSE LET c == Head(candidates)
         IN IF c.profileUrl \in seenUrls
            THEN DedupeExactLoop(Tail(candidates), seenUrls, seenIds, unique)
            ELSE LET id == FreeId(c.id, 1, seenIds)
                 IN DedupeExactLoop(Tail(candidates), seenUrls \cup {c.profileUrl},
                                    seenIds \cup {id}, Append(unique, [c EXCEPT !.id = id]))

dedupeCandidatesMutant(candidates) == DedupeExactLoop(candidates, {}, {}, <<>>)
dedupeCandidates(candidates) == DedupeLoop(candidates, {}, {}, <<>>)

\* An LLM reply is a record with a kind: "throw" (the call failed or timed
\* out), "nojson" (no braces in the text), "badjson" (JSON.parse throws) or
\* "json" with the fields of the parsed object. For the two discovery prompts
\* the field is candidates (empty when the key is absent), a list of entries
\* [primary_url, support_urls, source, typed]; typed = FALSE stands for an entry
\* with a field of the wrong type (or a null entry).
LlmThrow == [kind |-> "throw"]
NoJson == [kind |-> "nojson"]
BadJson == [kind |-> "badjson"]
LlmFailed(out) == out.kind # "json"

clusterSearchResults(haveLlm, results, out) ==
    IF ~haveLlm \/ results = <<>> THEN <<>>
    ELSE IF LlmFailed(out) THEN <<>>
    ELSE LET HasPrimary(c) == c.primary_url # NoUrl
         IN SelectSeq(out.candidates, HasPrimary)

NotLinkedin(u) == ~HostIncludes(u.host, LinkedinHost)

FirstN(s, n) == SubSeq(s, 1, IF Len(s) < n THEN Len(s) ELSE n)

\* discoverCandidates, lines 1410-1432: one CandidateProfile per cluster
MapCluster(cluster) ==
    LET source  == tagForUrl(cluster.primary_url)
        support == SelectSeq(cluster.support_urls, NotLinkedin)
        NotPrimary(u) == u # cluster.primary_url
    IN Candidate(Base64Head10(cluster.primary_url) \o <<"-", source>>, source,
                 cluster.primary_url,
                 FirstN(<<cluster.primary_url>> \o SelectSeq(support, NotPrimary), 6),
                 <<cluster.primary_url>> \o support)

\* discoverCandidates, lines 1444-1465: one candidate per search result, at most 6
RECURSIVE HeuristicLoop(_, _)
HeuristicLoop(results, heuristics) ==
    IF results = <<>> THEN heuristics
    ELSE LET url == Head(results)
         IN IF \E i \in 1..Len(heuristics) : heuristics[i].profileUrl = url
            THEN HeuristicLoop(Tail(results), heuristics)
            ELSE LET source == tagForUrl(url)
                     h2 == Append(heuristics,
                                  Candidate(Base64Head10(url) \o <<"-", source>>, source,
                                            url, <<url>>, <<>>))
                 IN IF Len(h2) >= HEURISTIC_CAP THEN h2
                    ELSE HeuristicLoop(Tail(results), h2)

\* discoverCandidates, lines 1543-1557: one CandidateProfile per merged entry
MapMerged(entry) ==
    LET source == IF entry.source = "" THEN tagForUrl(entry.primary_url)
                  ELSE entry.source
        all    == <<entry.primary_url>> \o entry.support_urls
        Truthy(u) == u # NoUrl
    IN Candidate(Base64Head10(entry.primary_url) \o <<"-", source>>, source,
                 entry.primary_url, SelectSeq(all, Truthy), SelectSeq(all, Truthy))

Discovery(candidates, mode, searchResults, clusterCount) ==
    [threw |-> FALSE, candidates |-> candidates, mode |-> mode,
     searchResults |-> searchResults, clusterCount |-> clusterCount, message |-> ""]

\* the TypeError of sanitizeWhitespace (line 880) on a description that is no
\* string, thrown by truncate in the loop of lines 1444-1465
Raised == [threw |-> TRUE, candidates |-> <<>>, mode |-> "none",
           searchResults |-> 0, clusterCount |-> 0,
           message |-> "TypeError: value.replace is not a function"]

\* the try block of lines 1407-1442: [ok |-> a cluster result was returned]
ClusterPath(haveLlm, results, clusterOut) ==
    LET clusters == clusterSearchResults(haveLlm, results, clusterOut)
    IN IF clusters = <<>> THEN [ok |-> FALSE, threw |-> FALSE]
       ELSE IF \E i \in 1..Len(clusters) : ~clusters[i].typed
            THEN [ok |-> FALSE, threw |-> TRUE]
            ELSE [ok |-> TRUE, threw |-> FALSE,
                  val |-> Discovery(dedupeCandidates([i \in 1..Len(clusters) |->
                                                        MapCluster(clusters[i])]),
                                    "cluster", Len(results), Len(clusters))]

\* the try block of lines 1513-1569
MergePath(results, mergeOut) ==
    IF LlmFailed(mergeOut) THEN [ok |-> FALSE, threw |-> TRUE]
    ELSE LET entries == mergeOut.candidates
         IN IF \E i \in 1..Len(entries) :
                   \/ ~entries[i].typed
                   \/ entries[i].primary_url = NoUrl
            THEN [ok |-> FALSE, threw |-> TRUE]
            ELSE IF entries = <<>> THEN [ok |-> FALSE, threw |-> FALSE]
            ELSE [ok |-> TRUE, threw |-> FALSE,
                  val |-> Discovery(dedupeCandidates([i \in 1..Len(entries) |->
                                                        MapMerged(entries[i])]),
                                    "heuristic", Len(results), Len(entries))]

discoverCandidates(name, haveKeys, haveLlm, search, clusterOut, mergeOut) ==
    LET results == fetchSearchResults(haveKeys, search)
    IN IF results = <<>> THEN Discovery(fallbackCandidates(name), "fallback", 0, 0)
       ELSE LET cluster == ClusterPath(haveLlm, results, clusterOut)
            IN IF cluster.ok THEN cluster.val
               ELSE IF ~search.typed THEN Raised
               ELSE LET heuristics == HeuristicLoop(results, <<>>)
                    IN IF heuristics = <<>>
                       THEN Discovery(fallbackCandidates(name), "fallback", Len(results), 0)
                       ELSE IF ~haveLlm
                       THEN Discovery(dedupeCandidates(heuristics), "heuristic",
                                      Len(results), 0)
                       ELSE LET merge == MergePath(results, mergeOut)
                            IN IF merge.ok THEN merge.val
                               ELSE Discovery(dedupeCandidates(heuristics), "heuristic",
                                              Len(results), Len(heuristics))

(***************************************************************************)
(* Identity resolution and evidence harvesting.                            *)
(***************************************************************************)
\* insertion into a JS Set, kept in insertion order
SetAdd(seq, x) == IF x \in Range(seq) THEN seq ELSE Append(seq, x)

RECURSIVE SetAddAll(_, _)
SetAddAll(seq, xs) == IF xs = <<>> THEN seq ELSE SetAddAll(SetAdd(seq, Head(xs)), Tail(xs))

IdentityHosts == {GithubHost, LinkedinHost, <<"s", "cholar.google.com">>,
                  <<"t", "witter.com">>, <<"x", ".com">>, <<"m", "edium.com">>,
                  <<"s", "ubstack.com">>}

\* page: Throw or [kind |-> "ok", hrefs |-> the anchors' hrefs]
resolveIdentities(profileUrl, page) ==
    IF Failed(page) THEN [core |-> profileUrl, identities |-> <<profileUrl>>]
    ELSE LET Allowed(u) == IsParsable(u) /\ \E h \in IdentityHosts :
                                               HostIncludes(toLowerCase(u.host), h)
         IN [core |-> profileUrl,
             identities |-> FirstN(SetAddAll(<<>>, SelectSeq(page.hrefs, Allowed)), 12)]

Snippet(source, words, url) == [source |-> source, words |-> words, url |-> url]

\* api: Throw (either GitHub request failed) or [kind |-> "ok", bio, repos],
\* repos a list of [html_url, words]
harvestGitHub(url, api) ==
    IF ~IsParsable(url) \/ url.path = <<>> \/ Failed(api) THEN <<>>
    ELSE <<Snippet("github", api.bio, Url("https", GithubHost, <<Head(url.path)>>))>>
         \o [i \in 1..Len(api.repos) |->
                Snippet("github", api.repos[i].words, api.repos[i].html_url)]

\* page: Throw or [kind |-> "ok", words |-> the stripped text of the page]
harvestWebsite(url, page) ==
    IF Failed(page) THEN <<>>
    ELSE IF page.words = <<>> THEN <<>>
    ELSE <<Snippet("website", page.words, url)>>

\* feed: Throw or [kind |-> "ok", blocks |-> the <item> blocks, each [link, words]]
RECURSIVE NewsLoop(_, _)
NewsLoop(blocks, snippets) ==
    IF blocks = <<>> THEN snippets
    ELSE IF Head(blocks).link = NoUrl THEN NewsLoop(Tail(blocks), snippets)
    ELSE LET s2 == Append(snippets, Snippet("news", Head(blocks).words, Head(blocks).link))
         IN IF Len(s2) >= 6 THEN s2 ELSE NewsLoop(Tail(blocks), s2)

harvestNews(feed) == IF Failed(feed) THEN <<>> ELSE NewsLoop(feed.blocks, <<>>)

\* pushes every harvested snippet, seen or not
AddUnseenMutant(snippets, harvested) == snippets \o harvested

RECURSIVE AddUnseen(_, _)
AddUnseen(snippets, harvested) ==
    IF harvested = <<>> THEN snippets
    ELSE AddUnseen(IF \E i \in 1..Len(snippets) : snippets[i].url = Head(harvested).url
                   THEN snippets ELSE Append(snippets, Head(harvested)),
                   Tail(harvested))

\* a loop that ends at the first identity that cannot be parsed
RECURSIVE HarvestLoopMutant(_, _, _)
HarvestLoopMutant(identities, web, snippets) ==
    IF identities = <<>> THEN snippets
    ELSE LET identity == Head(identities)
         IN IF ~IsParsable(identity) THEN snippets
            ELSE IF HostIncludes(toLowerCase(identity.host), GithubHost)
            THEN HarvestLoopMutant(Tail(identities), web,
                                   AddUnseen(snippets, harvestGitHub(identity, web.api)))
            ELSE IF HostIncludes(toLowerCase(identity.host), LinkedinHost)
            THEN HarvestLoopMutant(Tail(identities), web, snippets)
            ELSE HarvestLoopMutant(Tail(identities), web,
                                   AddUnseen(snippets, harvestWebsite(identity, web.page)))

\* web is what the network answers: [api, page, news]
RECURSIVE HarvestLoop(_, _, _)
HarvestLoop(identities, web, snippets) ==
    IF identities = <<>> THEN snippets
    ELSE LET identity == Head(identities)
         IN IF ~IsParsable(identity)
            THEN HarvestLoop(Tail(identities), web, snippets)
            ELSE IF HostIncludes(toLowerCase(identity.host), GithubHost)
            THEN HarvestLoop(Tail(identities), web,
                             AddUnseen(snippets, harvestGitHub(identity, web.api)))
            ELSE IF HostIncludes(toLowerCase(identity.host), LinkedinHost)
            THEN HarvestLoop(Tail(identities), web, snippets)
            ELSE HarvestLoop(Tail(identities), web,
                             AddUnseen(snippets, harvestWebsite(identity, web.page)))

\* a seen set that outlives the call: the URLs of the previous call's snippets
harvestIdentitiesMutant(identities, web) ==
    LET before == IF fnIn.op = "harvestIdentities" THEN fnOut.snippets ELSE <<>>
        Fresh(sn) == \A i \in 1..Len(before) : before[i].url # sn.url
    IN FirstN(SelectSeq(AddUnseen(HarvestLoop(identities, web, <<>>), harvestNews(web.news)),
                        Fresh),
              MAX_DOC_SNIPPETS)
harvestIdentities(identities, web) ==
    FirstN(AddUnseen(HarvestLoop(identities, web, <<>>), harvestNews(web.news)),
           MAX_DOC_SNIPPETS)

(***************************************************************************)
(* Profile synthesis and signal augmentation.                              *)
(***************************************************************************)
\* words of more than four characters among the word tokens of the model
LongWords == {"neural", "agents", "Agents", "learning", "data_sets", "robotics",
              "vision", "systems", "models", "graphs", "kernels"}

\* word.replace(/_/g, ' ')
Unscore(w) == IF w = "data_sets" THEN "data sets" ELSE w

LowerWord(w) == IF w = "Agents" THEN "agents" ELSE w

RECURSIVE Flatten(_)
Flatten(ss) == IF ss = <<>> THEN <<>> ELSE Head(ss) \o Flatten(Tail(ss))

RECURSIVE Distinct(_, _)
Distinct(xs, acc) ==
    IF xs = <<>> THEN acc ELSE Distinct(Tail(xs), SetAdd(acc, Head(xs)))

\* defects names the fields that a parsed LLM profile lacks or mistypes
Profile(summary, keywords, queries, evidence) ==
    [summary |-> summary, keywords |-> keywords, queries |-> queries,
     preferences |-> [depth |-> "mixed", format |-> "mixed", novelty |-> "medium"],
     evidence |-> evidence, keywordWeights |-> <<>>, defects |-> {},
     origin |-> "fallback"]

buildFallbackProfile(name, docs) ==
    LET words == Flatten([i \in 1..Len(docs) |-> docs[i].words])
        IsLong(w) == w \in LongWords
        lowered == LET long == SelectSeq(words, IsLong)
                   IN [i \in 1..Len(long) |-> LowerWord(long[i])]
        first8 == FirstN(Distinct(lowered, <<>>), 8)
    IN Profile(<<"public activity across">> \o [i \in 1..Len(docs) |-> docs[i].source],
               [i \in 1..Len(first8) |-> Unscore(first8[i])],
               <<name \o <<" latest">>, name \o <<" interview">>, name \o <<" github">>>>,
               [i \in 1..Len(FirstN(docs, 3)) |-> docs[i].url])

\* out is an LLM reply; a parsed reply [kind |-> "json", profile] is returned
\* as it is, whatever its fields
buildProfileCard(haveLlm, name, docs, out) ==
    IF ~haveLlm \/ LlmFailed(out) THEN buildFallbackProfile(name, docs)
    ELSE out.profile

\* counts in snippet order; text.includes(keyword) is a word of the snippet
computeKeywordCounts(keywords, docs) ==
    [i \in 1..Len(keywords) |->
        Cardinality({d \in 1..Len(docs) : LowerWord(keywords[i]) \in
                        {LowerWord(docs[d].words[j]) : j \in 1..Len(docs[d].words)}})]

RECURSIVE Sum(_)
Sum(xs) == IF xs = <<>> THEN 0 ELSE Head(xs) + Sum(Tail(xs))

\* Number((a / b).toFixed(3)), in thousandths
Fixed3(a, b) == (2000 * a + b) \div (2 * b)

defaultKeywordWeighting(keywords, counts) ==
    LET total == Sum(counts)
    IN IF total > 0
       THEN [i \in 1..Len(keywords) |->
                [keyword |-> keywords[i], weight |-> Fixed3(counts[i], total),
                 finite |-> TRUE]]
       ELSE [i \in 1..Len(keywords) |->
                [keyword |-> keywords[i], weight |-> Fixed3(1, Len(keywords)),
                 finite |-> TRUE]]

\* entries are [keyword, weight, finite]: weights in thousandths, finite = FALSE
\* for a weight that is not a finite number; a keyword "" is falsy
normalizeKeywordWeights(weights, fallbackKeywords) ==
    LET Uniform == [i \in 1..Len(fallbackKeywords) |->
                       [keyword |-> fallbackKeywords[i],
                        weight |-> Fixed3(1, Len(fallbackKeywords)), finite |-> TRUE]]
        Keep(e) == e.keyword # "" /\ e.finite
        filtered == SelectSeq(weights, Keep)
        sum == Sum([i \in 1..Len(filtered) |-> filtered[i].weight])
        total == IF sum = 0 THEN 1000 ELSE sum
    IN IF weights = <<>> THEN Uniform
       ELSE IF filtered = <<>> THEN Uniform
       ELSE [i \in 1..Len(filtered) |->
                [keyword |-> filtered[i].keyword,
                 weight |-> IF total > 0 THEN Fixed3(filtered[i].weight, total)
                            ELSE 0 - Fixed3(filtered[i].weight, 0 - total),
                 finite |-> TRUE]]

\* dedupeStrings / uniqueStrings: trim, drop blanks, first occurrence per
\* lower-cased key, stop at limit (limit 0: no limit)
RECURSIVE DedupeStringsLoop(_, _, _)
DedupeStringsLoop(values, limit, result) ==
    IF values = <<>> THEN result
    ELSE LET trimmed == trim(Head(values))
         IN IF trimmed = <<>>
               \/ \E i \in 1..Len(result) : toLowerCase(result[i]) = toLowerCase(trimmed)
            THEN DedupeStringsLoop(Tail(values), limit, result)
            ELSE LET r2 == Append(result, trimmed)
                 IN IF limit > 0 /\ Len(r2) >= limit THEN r2
                    ELSE DedupeStringsLoop(Tail(values), limit, r2)

dedupeStrings(values, limit) == DedupeStringsLoop(values, limit, <<>>)

\* the first limit values as they are
uniqueStringsMutant(values, limit) == FirstN(values, limit)
uniqueStrings(values, limit) == DedupeStringsLoop(values, limit, <<>>)

Augmentation(keywordWeights, additionalQueries, mode) ==
    [threw |-> FALSE, keywordWeights |-> keywordWeights,
     additionalQueries |-> additionalQueries, mode |-> mode]

\* the TypeError of spreading / iterating an undefined field
AugmentRaised == [threw |-> TRUE, keywordWeights |-> <<>>, additionalQueries |-> <<>>,
                  mode |-> "none", message |-> "TypeError: not iterable"]

\* keywords and queries are text: a keyword is one word token, a query a token list
KeywordStrs(keywords) == [i \in 1..Len(keywords) |-> <<keywords[i]>>]

\* out is an LLM reply; parsed: [keyword_weights, additional_queries] (empty
\* when the key is absent)
augmentProfileSignals(haveLlm, profile, docs, out) ==
    IF "keywords" \in profile.defects THEN AugmentRaised
    ELSE LET counts == computeKeywordCounts(profile.keywords, docs)
             Fallback == IF "queries" \in profile.defects THEN AugmentRaised
                         ELSE Augmentation(defaultKeywordWeighting(profile.keywords, counts),
                                           dedupeStrings(profile.queries, 6), "fallback")
         IN IF ~haveLlm \/ LlmFailed(out) \/ "queries" \in profile.defects THEN Fallback
            ELSE Augmentation(
                     normalizeKeywordWeights(out.keyword_weights, profile.keywords),
                     dedupeStrings(profile.queries \o out.additional_queries, 8),
                     "llm")

\* handleRun, lines 2531-2542
EnrichProfile(profileCard, augmentation) ==
    [profileCard EXCEPT
        !.keywords = LET merged == dedupeStrings(
                              KeywordStrs(profileCard.keywords) \o
                              [i \in 1..Len(augmentation.keywordWeights) |->
                                  <<augmentation.keywordWeights[i].keyword>>], 12)
                     IN [i \in 1..Len(merged) |-> merged[i][1]],
        !.keywordWeights = augmentation.keywordWeights,
        !.queries = augmentation.additionalQueries]

(***************************************************************************)
(* Query planner.                                                          *)
(***************************************************************************)
\* [...keywordWeights].sort((a, b) => b.weight - a.weight): stable, descending
RECURSIVE InsertByWeight(_, _)
InsertByWeight(sorted, e) ==
    IF sorted = <<>> THEN <<e>>
    ELSE IF Head(sorted).weight >= e.weight
         THEN <<Head(sorted)>> \o InsertByWeight(Tail(sorted), e)
         ELSE <<e>> \o sorted

RECURSIVE SortByWeight(_, _)
SortByWeight(xs, acc) ==
    IF xs = <<>> THEN acc ELSE SortByWeight(Tail(xs), InsertByWeight(acc, Head(xs)))

Plan(arxiv, hn, news) == [arxiv |-> arxiv, hn |-> hn, news |-> news]

PlanResult(plan, mode) == [threw |-> FALSE, plan |-> plan, mode |-> mode]

\* the TypeError of profile.evidence?.slice on a value that is no array
PlanRaised == [threw |-> TRUE, plan |-> Plan(<<>>, <<>>, <<>>), mode |-> "none",
               message |-> "TypeError: slice is not a function"]

Suffixed(strs, suffix) == [i \in 1..Len(strs) |-> strs[i] \o <<suffix>>]

defaultSourceQueries(profile) ==
    LET weighted == IF profile.keywordWeights # <<>>
                    THEN SortByWeight(profile.keywordWeights, <<>>)
                    ELSE [i \in 1..Len(profile.keywords) |->
                             [keyword |-> profile.keywords[i], weight |-> 1000,
                              finite |-> TRUE]]
        topKeywords == FirstN([i \in 1..Len(weighted) |-> <<weighted[i].keyword>>], 6)
        queryHints  == FirstN(profile.queries, 6)
        primary     == IF topKeywords # <<>> THEN topKeywords ELSE <<profile.summary>>
    IN PlanResult(
           Plan(uniqueStrings(Suffixed(primary, " arxiv") \o Suffixed(queryHints, " paper"), 4),
                uniqueStrings(Suffixed(primary, " discussion")
                              \o Suffixed(queryHints, " project news"), 4),
                uniqueStrings(Suffixed(primary, " interview")
                              \o Suffixed(queryHints, " blog post"), 4)),
           "fallback")

\* out is an LLM reply; parsed: [arxiv, hn, news, typed], each a list of
\* queries (empty when the key is absent); typed = FALSE when one of them is no
\* list of strings
generateSourceQueries(haveLlm, profile, out) ==
    IF ~haveLlm THEN defaultSourceQueries(profile)
    ELSE IF "evidence" \in profile.defects THEN PlanRaised
    ELSE IF LlmFailed(out) THEN defaultSourceQueries(profile)
    ELSE IF ~out.typed THEN defaultSourceQueries(profile)
    ELSE PlanResult(Plan(uniqueStrings(out.arxiv, 4), uniqueStrings(out.hn, 4),
                         uniqueStrings(out.news, 4)),
                    "llm")

(***************************************************************************)
(* Content gatherer.                                                       *)
(***************************************************************************)
Item(id, source, url) == [id |-> id, source |-> source, url |-> url]

\* An upstream answer is Throw (the request failed, timed out, or its body
\* made the collector throw) or [kind |-> "ok", entries].

\* arXiv entries are [id, link]: the <id> tag and the link href
fetchArxiv(answer, count) ==
    IF Failed(answer) THEN <<>>
    ELSE LET entries == FirstN(answer.entries, count)
         IN [i \in 1..Len(entries) |-> Item(entries[i].id, "arxiv", entries[i].link)]

RECURSIVE HnLoop(_, _, _, _)
HnLoop(links, seen, candidates, count) ==
    IF links = <<>> THEN candidates
    ELSE LET link == Head(links)
         IN IF link = NoUrl \/ ~IsParsable(link) \/ link \in seen
            THEN HnLoop(Tail(links), seen, candidates, count)
            ELSE LET c2 == Append(candidates,
                                  Item(<<"hn-">> \o Base64Head10(link), "hn", link))
                 IN IF Len(c2) >= count THEN c2
                    ELSE HnLoop(Tail(links), seen \cup {link}, c2, count)

fetchHackerNews(haveKeys, answer, count) ==
    IF ~haveKeys \/ Failed(answer) THEN <<>> ELSE HnLoop(answer.entries, {}, <<>>, count)

RECURSIVE NewsItemsLoop(_, _, _)
NewsItemsLoop(links, items, count) ==
    IF links = <<>> THEN items
    ELSE IF Head(links) = NoUrl THEN NewsItemsLoop(Tail(links), items, count)
    ELSE LET i2 == Append(items, Item(<<"news-">> \o Base64Head12(Head(links)), "news",
                                      Head(links)))
         IN IF Len(i2) >= count THEN i2 ELSE NewsItemsLoop(Tail(links), i2, count)

fetchNewsArticles(answer, count) ==
    IF Failed(answer) THEN <<>> ELSE NewsItemsLoop(answer.entries, <<>>, count)

\* upstream is [arxiv, hn, news]: per source, the answers to its queries in
\* plan order (the i-th query gets the i-th answer, the last one repeating)
AnswerAt(answers, i) == answers[IF i <= Len(answers) THEN i ELSE Len(answers)]

\* lines 2132-2142: the promises, in plan order; each settles as
\* [status |-> "fulfilled", value] (a collector catches its own failures)
Collectors(haveKeys, plan, upstream) ==
    [i \in 1..Len(FirstN(plan.arxiv, 4)) |->
        [status |-> "fulfilled", value |-> fetchArxiv(AnswerAt(upstream.arxiv, i), 3)]]
    \o [i \in 1..Len(FirstN(plan.hn, 4)) |->
        [status |-> "fulfilled",
         value |-> fetchHackerNews(haveKeys, AnswerAt(upstream.hn, i), 3)]]
    \o [i \in 1..Len(FirstN(plan.news, 4)) |->
        [status |-> "fulfilled", value |-> fetchNewsArticles(AnswerAt(upstream.news, i), 3)]]

\* pushes every item, seen or not
AddUnseenIdsMutant(items, more) == items \o more

RECURSIVE AddUnseenIds(_, _)
AddUnseenIds(items, more) ==
    IF more = <<>> THEN items
    ELSE AddUnseenIds(IF \E i \in 1..Len(items) : items[i].id = Head(more).id
                      THEN items ELSE Append(items, Head(more)),
                      Tail(more))

\* lines 2144-2157: Promise.allSettled, then the merge over the fulfilled results
RECURSIVE MergeSettled(_, _)
MergeSettled(results, items) ==
    IF results = <<>> THEN items
    ELSE MergeSettled(Tail(results),
                      IF Head(results).status = "fulfilled"
                      THEN AddUnseenIds(items, Head(results).value) ELSE items)

gatherCandidateContent(haveKeys, planResult, upstream) ==
    [threw |-> FALSE,
     items |-> FirstN(MergeSettled(Collectors(haveKeys, planResult.plan, upstream), <<>>),
                      CANDIDATE_TARGET),
     plan  |-> planResult.plan,
     mode  |-> planResult.mode]

(***************************************************************************)
(* Ranker / rebalancer.                                                    *)
(***************************************************************************)
FeedItem(id, source, url, summary, because) ==
    [id |-> id, source |-> source, url |-> url, summary |-> summary, because |-> because]

DefaultSources == <<"arxiv", "hn", "news">>

Ids(items) == {items[i].id : i \in 1..Len(items)}

rebalanceFeedMutant(items, sources, perSourceCap) ==
    LET Bucket(src) == LET Of(it) == it.source = src IN SelectSeq(items, Of)
        Unknown(it) == it.source \notin Range(sources)
        capped == Flatten([k \in 1..Len(sources) |-> FirstN(Bucket(sources[k]), perSourceCap)])
        rest == Flatten([k \in 1..Len(sources) |->
                            SubSeq(Bucket(sources[k]), perSourceCap + 1,
                                   Len(Bucket(sources[k])))])
        chunkSize == IF Len(sources) * perSourceCap < 1 THEN 1
                     ELSE Len(sources) * perSourceCap
    IN FirstN(capped \o rest \o SelectSeq(items, Unknown), chunkSize)
\* the items of unlisted sources ahead of the items beyond the cap
rebalanceFeedOrderMutant(items, sources, perSourceCap) ==
    LET uniq == AddUnseenIds(<<>>, items)
        Bucket(src) == LET Of(it) == it.source = src IN SelectSeq(uniq, Of)
        Unknown(it) == it.source \notin Range(sources)
        capped == Flatten([k \in 1..Len(sources) |-> FirstN(Bucket(sources[k]), perSourceCap)])
        rest == Flatten([k \in 1..Len(sources) |->
                            SubSeq(Bucket(sources[k]), perSourceCap + 1,
                                   Len(Bucket(sources[k])))])
        chunkSize == IF Len(sources) * perSourceCap < 1 THEN 1
                     ELSE Len(sources) * perSourceCap
    IN FirstN(capped \o SelectSeq(uniq, Unknown) \o rest, chunkSize)
\* the capped region last to first
rebalanceFeedReverseMutant(items, sources, perSourceCap) ==
    LET uniq == AddUnseenIds(<<>>, items)
        Bucket(src) == LET Of(it) == it.source = src IN SelectSeq(uniq, Of)
        Unknown(it) == it.source \notin Range(sources)
        capped == Flatten([k \in 1..Len(sources) |-> FirstN(Bucket(sources[k]), perSourceCap)])
        rest == Flatten([k \in 1..Len(sources) |->
                            SubSeq(Bucket(sources[k]), perSourceCap + 1,
                                   Len(Bucket(sources[k])))])
        chunkSize == IF Len(sources) * perSourceCap < 1 THEN 1
                     ELSE Len(sources) * perSourceCap
    IN FirstN([i \in 1..Len(capped) |-> capped[Len(capped) + 1 - i]]
                 \o rest \o SelectSeq(uniq, Unknown), chunkSize)
rebalanceFeed(items, sources, perSourceCap) ==
    LET uniq == AddUnseenIds(<<>>, items)
        Bucket(src) == LET Of(it) == it.source = src IN SelectSeq(uniq, Of)
        Known(it) == it.source \in Range(sources)
        Unknown(it) == ~Known(it)
        overflow == SelectSeq(uniq, Unknown)
        capped == Flatten([k \in 1..Len(sources) |-> FirstN(Bucket(sources[k]), perSourceCap)])
        rest == Flatten([k \in 1..Len(sources) |->
                            SubSeq(Bucket(sources[k]), perSourceCap + 1,
                                   Len(Bucket(sources[k])))])
        balanced == AddUnseenIds(<<>>, capped \o rest \o overflow)
        chunkSize == IF Len(sources) * perSourceCap < 1 THEN 1
                     ELSE Len(sources) * perSourceCap
    IN FirstN(balanced, chunkSize)

buildFallbackFeed(profile, items) ==
    LET selected == FirstN(items, CANDIDATE_TARGET)
        top == IF profile.keywords = <<>> THEN "the topic" ELSE profile.keywords[1]
    IN rebalanceFeed([i \in 1..Len(selected) |->
                         FeedItem(selected[i].id, selected[i].source, selected[i].url,
                                  "snippet", <<"Matches interest in", top>>)],
                     DefaultSources, 3)

Leftovers(items, chosen) ==
    LET NotChosen(c) == c.id \notin Ids(chosen)
        left == SelectSeq(items, NotChosen)
    IN [i \in 1..Len(left) |->
           FeedItem(left[i].id, left[i].source, left[i].url, "snippet",
                    <<"Candidate from", left[i].source>>)]

FallbackRanking(profile, items) ==
    LET exploitation == buildFallbackFeed(profile, items)
    IN [exploitation |-> exploitation, leftovers |-> Leftovers(items, exploitation),
        mode |-> "fallback"]

\* lines 2312-2330: the selections mapped back to the candidates, at most 10
RECURSIVE RankedLoop(_, _, _)
RankedLoop(top, items, ranked) ==
    IF top = <<>> THEN ranked
    ELSE LET Match(it) == it.id = Head(top)
             found == SelectSeq(items, Match)
         IN IF found = <<>> THEN RankedLoop(Tail(top), items, ranked)
            ELSE LET it == found[Len(found)]
                     r2 == Append(ranked, FeedItem(it.id, it.source, it.url, "llm", <<"llm">>))
                 IN IF Len(r2) >= 10 THEN r2 ELSE RankedLoop(Tail(top), items, r2)

\* out is an LLM reply; parsed: [top, hasTop]: the selected ids; hasTop = FALSE
\* when the key is absent or no list
rankFeedItemsMutant(haveLlm, profile, items, out) ==
    IF ~haveLlm \/ LlmFailed(out) THEN FallbackRanking(profile, items)
    ELSE IF ~out.hasTop THEN FallbackRanking(profile, items)
    ELSE LET balanced == rebalanceFeed(RankedLoop(out.top, items, <<>>), DefaultSources, 3)
         IN [exploitation |-> balanced, leftovers |-> Leftovers(items, balanced),
             mode |-> "llm"]
rankFeedItems(haveLlm, profile, items, out) ==
    IF ~haveLlm \/ LlmFailed(out) THEN FallbackRanking(profile, items)
    ELSE IF ~out.hasTop THEN FallbackRanking(profile, items)
    ELSE LET balanced == rebalanceFeed(RankedLoop(out.top, items, <<>>), DefaultSources, 3)
         IN IF balanced = <<>> THEN FallbackRanking(profile, items)
            ELSE [exploitation |-> balanced, leftovers |-> Leftovers(items, balanced),
                  mode |-> "llm"]

\* handleRun, lines 2580-2593
AssembleFeedMutant(ranking) ==
    LET exploitation == FirstN(ranking.exploitation, 8)
        NotExploited(it) == it.id \notin Ids(exploitation)
        explorationCandidates == SelectSeq(ranking.leftovers, NotExploited)
        exploration == FirstN(rebalanceFeed(explorationCandidates, DefaultSources, 1), 2)
        combinedFeed == FirstN(rebalanceFeed(exploitation \o explorationCandidates,
                                             DefaultSources, 3), 10)
        Remaining(it) == it.id \notin Ids(combinedFeed) /\ it.id \notin Ids(exploration)
    IN [items |-> combinedFeed, exploitation |-> exploitation, exploration |-> exploration,
        remaining |-> SelectSeq(ranking.leftovers, Remaining)]
\* handleRun, lines 2580-2593
AssembleFeed(ranking) ==
    LET exploitation == FirstN(ranking.exploitation, 8)
        NotExploited(it) == it.id \notin Ids(exploitation)
        explorationCandidates == SelectSeq(ranking.leftovers, NotExploited)
        exploration == FirstN(rebalanceFeed(explorationCandidates, DefaultSources, 1), 2)
        NotExplored(it) == it.id \notin Ids(exploration)
        coreFeedPool == exploitation \o SelectSeq(explorationCandidates, NotExplored)
        combinedFeed == FirstN(rebalanceFeed(coreFeedPool, DefaultSources, 3), 10)
        Remaining(it) == it.id \notin Ids(combinedFeed) /\ it.id \notin Ids(exploration)
    IN [items |-> combinedFeed, exploitation |-> exploitation, exploration |-> exploration,
        remaining |-> SelectSeq(ranking.leftovers, Remaining)]

\* out is an LLM reply; a parsed reply is returned as the digest: what the
\* model wrote about the item and the profile of its prompt
createDeepenDigestMutant(haveLlm, profile, item, name, out) ==
    [tldr |-> << <<"News article">>, item.summary >>,
     why_me |-> <<"It aligns with the profile of", firstNameFrom(name)>>,
     by |-> "fallback"]
createDeepenDigest(haveLlm, profile, item, name, out) ==
    IF ~haveLlm
    THEN [tldr |-> <<item.id, item.summary>>,
          why_me |-> <<"It aligns with the profile of", firstNameFrom(name)>>,
          by |-> "fallback"]
    ELSE IF LlmFailed(out)
    THEN [tldr |-> <<item.id, item.summary>>,
          why_me |-> <<"It matches the stated themes of", firstNameFrom(name)>>,
          by |-> "fallback"]
    ELSE [tldr |-> <<item.id, item.summary>>, why_me |-> <<"llm", profile.summary>>,
          by |-> "llm"]

(***************************************************************************)
(* The feed cache.                                                         *)
(***************************************************************************)
\* cleanupFeedCache at time t: entries with expires < t are deleted
cleanupFeedCacheSkipMutant(cache, t) == cache
cleanupFeedCacheMutant(cache, t) ==
    [k \in {k \in DOMAIN cache : cache[k].expires < t} |-> cache[k]]
cleanupFeedCache(cache, t) ==
    [k \in {k \in DOMAIN cache : ~(cache[k].expires < t)} |-> cache[k]]

CacheEntry(item, profile, name, expires) ==
    [item |-> item, profile |-> profile, name |-> name, expires |-> expires]

\* lines 2616-2619: one feedCache.set per item, in order
RECURSIVE WriteFeed(_, _, _, _, _)
WriteFeed(cache, items, profile, name, expiry) ==
    IF items = <<>> THEN cache
    ELSE WriteFeed([k \in DOMAIN cache \cup {Head(items).id} |->
                       IF k = Head(items).id
                       THEN CacheEntry(Head(items), profile, name, expiry)
                       ELSE cache[k]],
                   Tail(items), profile, name, expiry)

(***************************************************************************)
(* The event stream.                                                       *)
(***************************************************************************)
Stage(state) == [type |-> "stage", state |-> state]
\* a log line: its fixed text, the mode label interpolated into it ("" when the
\* line has none) and the other values interpolated into it
Log(text, label, args, level) ==
    [type |-> "log", text |-> text, label |-> label, args |-> args, level |-> level]
ErrorEvent(message) == [type |-> "error", message |-> message]
CompleteEvent(message) == [type |-> "complete", message |-> message]

RunStages == <<"ResolveEntities", "HarvestPublicData", "BuildProfile",
               "FetchCandidates", "RankAndExplain">>

(***************************************************************************)
(* What the collaborators may answer during a request.                     *)
(***************************************************************************)
UGh     == Url("https", GithubHost, <<"ada">>)
USite   == Url("https", <<"a", "da.dev">>, <<>>)
UBlog   == Url("https", <<"b", "log.io">>, <<>>)
UHttp   == Url("http", <<"x", ".", "org">>, <<>>)
UScholar == Url("https", <<"s", "cholar.google.com">>, <<"ada">>)

ClusterEntry(primary, support, source) ==
    [primary_url |-> primary, support_urls |-> support, source |-> source, typed |-> TRUE]

SearchAnswers == {Throw, [kind |-> "ok", items |-> <<UGh, USite>>, typed |-> TRUE],
                  [kind |-> "ok", items |-> <<USite>>, typed |-> FALSE]}
ClusterReplies == {LlmThrow,
                   [kind |-> "json", candidates |-> <<ClusterEntry(UGh, <<USite>>, "")>>]}
MergeReplies == {BadJson,
                 [kind |-> "json", candidates |-> <<ClusterEntry(USite, <<>>, ""),
                                                     ClusterEntry(UBlog, <<>>, "site")>>]}
ResolveAnswers == {[kind |-> "ok", hrefs |-> <<UScholar, UBlog>>]}
WebAnswers ==
    { [api |-> Throw, page |-> Throw, news |-> Throw],
      [api |-> [kind |-> "ok", bio |-> <<"robotics">>,
                repos |-> <<[html_url |-> Url("https", GithubHost, <<"ada", "feed">>),
                             words |-> <<"neural", "feed">>]>>],
       page |-> [kind |-> "ok", words |-> <<"Agents", "learning">>],
       news |-> [kind |-> "ok", blocks |-> <<[link |-> UBlog, words |-> <<"agents">>]>>]] }

LlmProfile(keywords, queries, defects) ==
    [kind |-> "json",
     profile |-> [summary |-> <<"llm summary">>, keywords |-> keywords, queries |-> queries,
                  preferences |-> [depth |-> "theory", format |-> "code", novelty |-> "high"],
                  evidence |-> <<UGh>>, keywordWeights |-> <<>>, defects |-> defects,
                  origin |-> "llm"]]

ProfileReplies ==
    { NoJson,
      LlmProfile(<<"neural", "agents">>, << <<"neural", " feeds">> >>, {}),
      LlmProfile(<<>>, << <<"neural", " feeds">> >>, {"keywords"}),
      LlmProfile(<<"neural">>, <<>>, {"evidence"}) }
AugmentReplies ==
    { LlmThrow,
      [kind |-> "json",
       keyword_weights |-> <<[keyword |-> "agents", weight |-> 600, finite |-> TRUE],
                             [keyword |-> "robotics", weight |-> 200, finite |-> TRUE]>>,
       additional_queries |-> << <<"agent", " swarms">> >>] }
PlanReplies ==
    { BadJson,
      [kind |-> "json", arxiv |-> << <<"neural", " feeds">> >>,
       hn |-> << <<"agents">>, <<"Agents">> >>, news |-> <<>>, typed |-> TRUE] }

ArxivEntry(n) == [id |-> <<"arxiv:", n>>, link |-> Url("http", <<"a", "r", "xiv.org">>, <<n>>)]
ArxivUp == << [kind |-> "ok", entries |-> <<ArxivEntry("1"), ArxivEntry("2")>>],
              [kind |-> "ok", entries |-> <<ArxivEntry("2")>>] >>
HnUp    == << [kind |-> "ok",
               entries |-> <<Url("https", <<"n", "ews.ycombinator.com">>, <<"1">>),
                             Url("https", <<"n", "ews.ycombinator.com">>, <<"2">>), UHttp>>] >>
NewsUp  == << [kind |-> "ok", entries |-> <<Url("https", <<"n", "ews.google.com">>, <<"1">>)>>],
              [kind |-> "ok", entries |-> <<Url("https", <<"t", "imes.com">>, <<"2">>)>>] >>

\* every source answers, one source fails on every call, or all of them do
UpstreamAnswers ==
    { [arxiv |-> ArxivUp, hn |-> HnUp, news |-> NewsUp],
      [arxiv |-> <<Throw>>, hn |-> HnUp, news |-> NewsUp],
      [arxiv |-> ArxivUp, hn |-> <<Throw>>, news |-> NewsUp],
      [arxiv |-> ArxivUp, hn |-> HnUp, news |-> <<Throw>>],
      [arxiv |-> <<Throw>>, hn |-> <<Throw>>, news |-> <<Throw>>] }

RankReplies == {LlmThrow, [kind |-> "json", top |-> <<>>, hasTop |-> FALSE],
                [kind |-> "json", hasTop |-> TRUE,
                 top |-> << <<"arxiv:", "2">>, <<"bogus">>, <<"news-", "aHR0cHM6Ly", "t">> >>]}
DeepenReplies == {NoJson, [kind |-> "json"]}

(***************************************************************************)
(* Requests.                                                               *)
(***************************************************************************)
PostSlot == "post"
GetSlot == "get"
\* a second POST in flight at the same time
PostSlot2 == "post2"
RunSlots == {PostSlot, PostSlot2}
Slots == {PostSlot, PostSlot2, GetSlot}

\* a JSON body: hasName / hasId = FALSE when the key is absent
Body(hasName, name, hasId, candidateId) ==
    [hasName |-> hasName, name |-> name, hasId |-> hasId, candidateId |-> candidateId]

AdaName == <<"A", " ", "L", " ">>

Bodies ==
    { Body(FALSE, <<>>, FALSE, <<>>),
      Body(TRUE, <<>>, TRUE, <<"a", "-", "l", "-gh">>),
      Body(TRUE, <<" ", "\t">>, TRUE, <<"a", "-", "l", "-gh">>),
      Body(TRUE, AdaName, FALSE, <<>>),
      Body(TRUE, AdaName, TRUE, <<>>),
      Body(TRUE, AdaName, TRUE, <<"a", "-", "l", "-site">>),
      Body(TRUE, AdaName, TRUE, <<"bogus">>) }

Phases == {"discover", "run"}

\* how far the clock may have moved when it is read, in milliseconds
ClockSteps == {0, 1000, 899000}

ItemIdInputs == { <<>>, <<"arxiv:", "1">>, <<"never">> }

NoRequest == [kind |-> "none"]
NoLocals == [at |-> "none"]
NoResponse == [status |-> 0]

\* sendEvent / logEvent: controller.enqueue
Emit(r, evs) == events' = [events EXCEPT ![r] = @ \o evs]

\* the catch of POST: error.message, or 'Unknown error' for a non-Error
CatchMessage(err) == IF err.message # "" THEN err.message ELSE "Unknown error"

Init ==
    /\ cfg \in [llm : BOOLEAN, search : BOOLEAN]
    /\ now = 0
    /\ ticks = 0
    /\ feedCache = << >>
    /\ req = [r \in Slots |-> NoRequest]
    /\ pc = [r \in Slots |-> "idle"]
    /\ loc = [r \in Slots |-> NoLocals]
    /\ events = [r \in Slots |-> <<>>]
    /\ closed = [r \in Slots |-> FALSE]
    /\ resp = [r \in Slots |-> NoResponse]
    /\ posts = 0
    /\ fnIn = [op |-> "none"]
    /\ fnOut = [op |-> "none"]

\* Date.now(): the clock has moved by d since it was last read
ReadClock(d) ==
    /\ d = 0 \/ ticks < MaxTicks
    /\ now' = now + d
    /\ ticks' = IF d = 0 THEN ticks ELSE ticks + 1

\* POST, up to the first await of the handler it starts
PostRequest ==
    /\ pc[PostSlot] \in {"idle", "done"}
    /\ posts < MaxPosts
    /\ \E phase \in Phases, body \in Bodies :
        LET r == PostSlot
            name == trim(body.name)
        IN /\ posts' = posts + 1
           /\ req' = [req EXCEPT ![r] = [kind |-> "POST", phase |-> phase, body |-> body]]
           /\ IF ~body.hasName \/ body.name = <<>> \/ trim(body.name) = <<>>
              THEN /\ resp' = [resp EXCEPT ![r] = [status |-> 400,
                                                   error |-> "Name is required."]]
                   /\ events' = [events EXCEPT ![r] = <<>>]
                   /\ closed' = [closed EXCEPT ![r] = FALSE]
                   /\ pc' = [pc EXCEPT ![r] = "done"]
                   /\ loc' = [loc EXCEPT ![r] = NoLocals]
              ELSE /\ resp' = [resp EXCEPT ![r] = [status |-> 200, error |-> ""]]
                   /\ IF phase = "discover"
                      THEN /\ events' = [events EXCEPT ![r] =
                                            <<Stage("DiscoverCandidates"),
                                              Log("Searching public web for", "", name, "info")>>]
                           /\ closed' = [closed EXCEPT ![r] = FALSE]
                           /\ pc' = [pc EXCEPT ![r] = "discover.discoverCandidates"]
                           /\ loc' = [loc EXCEPT ![r] = [at |-> "discover", name |-> name]]
                      ELSE IF ~body.hasId \/ body.candidateId = <<>>
                      THEN /\ events' = [events EXCEPT ![r] =
                                            <<ErrorEvent("Candidate confirmation is required.")>>]
                           /\ closed' = [closed EXCEPT ![r] = TRUE]
                           /\ pc' = [pc EXCEPT ![r] = "done"]
                           /\ loc' = [loc EXCEPT ![r] = NoLocals]
                      ELSE /\ events' = [events EXCEPT ![r] = <<>>]
                           /\ closed' = [closed EXCEPT ![r] = FALSE]
                           /\ pc' = [pc EXCEPT ![r] = "run.discoverCandidates"]
                           /\ loc' = [loc EXCEPT ![r] = [at |-> "run", name |-> name,
                                                         candidateId |-> body.candidateId]]
    /\ UNCHANGED <<cfg, now, ticks, feedCache, fnIn, fnOut>>

\* the catch and finally of POST: the error event, then controller.close()
FailMutant(r, err) ==
    /\ Emit(r, <<ErrorEvent("Unknown error")>>)
    /\ closed' = [closed EXCEPT ![r] = TRUE]
    /\ pc' = [pc EXCEPT ![r] = "done"]
    /\ loc' = [loc EXCEPT ![r] = NoLocals]
Fail(r, err) ==
    /\ Emit(r, <<ErrorEvent(CatchMessage(err))>>)
    /\ closed' = [closed EXCEPT ![r] = TRUE]
    /\ pc' = [pc EXCEPT ![r] = "done"]
    /\ loc' = [loc EXCEPT ![r] = NoLocals]

\* handleDiscover after discoverCandidates has resolved, and the finally of POST
DiscoverEvents(discovery) ==
    <<Log("Found candidate profiles via",
          CASE discovery.mode = "cluster" -> "LLM clustering"
            [] discovery.mode = "heuristic" -> "heuristic merge"
            [] OTHER -> "fallback",
          <<Len(discovery.candidates)>>, "success")>>
    \o (IF discovery.mode # "cluster"
        THEN <<Log("LLM clustering unavailable; showing best-effort matches.", "", <<>>,
                   "warning")>>
        ELSE <<>>)
    \o <<[type |-> "candidates", candidates |-> discovery.candidates,
          mode |-> discovery.mode],
         Stage("AwaitUserConfirm"),
         CompleteEvent("Discovery complete.")>>

DiscoverDone ==
    /\ pc[PostSlot] = "discover.discoverCandidates"
    /\ \E search \in SearchAnswers, clusterOut \in ClusterReplies, mergeOut \in MergeReplies :
        LET r == PostSlot
            discovery == discoverCandidates(loc[r].name, cfg.search, cfg.llm, search,
                                            clusterOut, mergeOut)
        IN IF discovery.threw
           THEN Fail(r, discovery)
           ELSE /\ Emit(r, DiscoverEvents(discovery))
                /\ closed' = [closed EXCEPT ![r] = TRUE]
                /\ pc' = [pc EXCEPT ![r] = "done"]
                /\ loc' = [loc EXCEPT ![r] = NoLocals]
    /\ UNCHANGED <<cfg, now, ticks, feedCache, req, resp, posts, fnIn, fnOut>>

\* handleRun, line 2504: candidates.find(c => c.id === candidateId) ?? candidates[0]
Confirm(candidates, candidateId) ==
    LET Match(c) == c.id = candidateId
        found == SelectSeq(candidates, Match)
    IN IF found # <<>> THEN <<found[1]>>
       ELSE IF candidates # <<>> THEN <<candidates[1]>>
       ELSE <<>>

\* handleRun, lines 2510-2515: what is sent once the candidate is confirmed
ConfirmedEventsMutant(confirmed) ==
    <<Stage("HarvestPublicData"),
      Log("Confirmed", "", <<confirmed.source, confirmed.profileUrl>>, "success"),
      Log("Resolving linked identities (website, Scholar, X)", "", <<>>, "info")>>
ConfirmedEvents(confirmed) ==
    <<Stage("ResolveEntities"),
      Log("Confirmed", "", <<confirmed.source, confirmed.profileUrl>>, "success"),
      Log("Resolving linked identities (website, Scholar, X)", "", <<>>, "info")>>

\* handleRun from the return of discoverCandidates to the await of resolveIdentities
RunDiscovered ==
    /\ pc[PostSlot] = "run.discoverCandidates"
    /\ \E search \in SearchAnswers, clusterOut \in ClusterReplies, mergeOut \in MergeReplies :
        LET r == PostSlot
            discovery == discoverCandidates(loc[r].name, cfg.search, cfg.llm, search,
                                            clusterOut, mergeOut)
            confirmed == Confirm(discovery.candidates, loc[r].candidateId)
        IN IF discovery.threw
           THEN Fail(r, discovery)
           ELSE IF confirmed = <<>>
           THEN /\ Emit(r, <<ErrorEvent("Unable to confirm candidate. Try the discovery step again.")>>)
                /\ closed' = [closed EXCEPT ![r] = TRUE]
                /\ pc' = [pc EXCEPT ![r] = "done"]
                /\ loc' = [loc EXCEPT ![r] = NoLocals]
           ELSE /\ Emit(r, ConfirmedEvents(confirmed[1]))
                /\ closed' = closed
                /\ pc' = [pc EXCEPT ![r] = "run.resolveIdentities"]
                /\ loc' = [loc EXCEPT ![r] =
                              [at |-> "resolve", name |-> loc[r].name,
                               confirmed |-> confirmed[1],
                               identitySeed |-> SetAddAll(<<>>, <<confirmed[1].profileUrl>>
                                                                \o confirmed[1].supportUrls)]]
    /\ UNCHANGED <<cfg, now, ticks, feedCache, req, resp, posts, fnIn, fnOut>>

\* handleRun from the return of resolveIdentities to the await of harvestIdentities
RunResolved ==
    /\ pc[PostSlot] = "run.resolveIdentities"
    /\ \E page \in ResolveAnswers :
        LET r == PostSlot
            identities == resolveIdentities(loc[r].confirmed.profileUrl, page)
            seed == SetAdd(SetAddAll(loc[r].identitySeed, identities.identities),
                           identities.core)
        IN /\ Emit(r, <<Stage("HarvestPublicData"),
                        Log("Collected linked identities", "", <<Len(seed)>>, "info"),
                        Log("Harvesting public data", "", <<>>, "info")>>)
           /\ pc' = [pc EXCEPT ![r] = "run.harvestIdentities"]
           /\ loc' = [loc EXCEPT ![r] = [at |-> "harvest", name |-> loc[r].name,
                                         identitySeed |-> seed]]
    /\ UNCHANGED <<cfg, now, ticks, feedCache, req, closed, resp, posts, fnIn, fnOut>>

\* handleRun from the return of harvestIdentities to the await of buildProfileCard
RunHarvestedWith(web) ==
    /\ pc[PostSlot] = "run.harvestIdentities"
    /\ LET r == PostSlot
           snippets == harvestIdentities(loc[r].identitySeed, web)
       IN /\ Emit(r, <<Log("Harvested documents", "", <<Len(snippets)>>, "success"),
                       Stage("BuildProfile"),
                       Log("Summarizing to profile (LLM)", "", <<>>, "info")>>)
          /\ pc' = [pc EXCEPT ![r] = "run.buildProfileCard"]
          /\ loc' = [loc EXCEPT ![r] = [at |-> "profile", name |-> loc[r].name,
                                        snippets |-> snippets]]
    /\ UNCHANGED <<cfg, now, ticks, feedCache, req, closed, resp, posts, fnIn, fnOut>>

RunHarvested == \E web \in WebAnswers : RunHarvestedWith(web)

\* handleRun from the return of buildProfileCard to the await of augmentProfileSignals
RunProfileBuilt ==
    /\ pc[PostSlot] = "run.buildProfileCard"
    /\ \E out \in ProfileReplies :
        LET r == PostSlot
        IN /\ pc' = [pc EXCEPT ![r] = "run.augmentProfileSignals"]
           /\ loc' = [loc EXCEPT ![r] =
                         [at |-> "augment", name |-> loc[r].name,
                          snippets |-> loc[r].snippets,
                          profileCard |-> buildProfileCard(cfg.llm, loc[r].name,
                                                           loc[r].snippets, out)]]
    /\ UNCHANGED <<cfg, now, ticks, feedCache, req, events, closed, resp, posts, fnIn, fnOut>>

\* handleRun from the return (or rejection) of augmentProfileSignals to the
\* await of gatherCandidateContent, which starts with generateSourceQueries
RunAugmented ==
    /\ pc[PostSlot] = "run.augmentProfileSignals"
    /\ \E out \in AugmentReplies :
        LET r == PostSlot
            augmentation == augmentProfileSignals(cfg.llm, loc[r].profileCard,
                                                  loc[r].snippets, out)
            enrichedProfile == EnrichProfile(loc[r].profileCard, augmentation)
        IN IF augmentation.threw
           THEN Fail(r, augmentation)
           ELSE /\ Emit(r, <<Log("Profile card ready. Signals enriched via",
                                 IF augmentation.mode = "llm" THEN "LLM augmentation"
                                 ELSE "heuristic augmentation", <<>>, "success"),
                             [type |-> "profile", profileCard |-> enrichedProfile],
                             Stage("FetchCandidates"),
                             Log("Fetching candidates (arXiv/HN/News)", "", <<>>, "info")>>)
                /\ closed' = closed
                /\ pc' = [pc EXCEPT ![r] = "run.generateSourceQueries"]
                /\ loc' = [loc EXCEPT ![r] = [at |-> "plan", name |-> loc[r].name,
                                              enrichedProfile |-> enrichedProfile]]
    /\ UNCHANGED <<cfg, now, ticks, feedCache, req, resp, posts, fnIn, fnOut>>

\* gatherCandidateContent from the return (or rejection) of generateSourceQueries
\* to the await of Promise.allSettled
RunPlanned ==
    /\ pc[PostSlot] = "run.generateSourceQueries"
    /\ \E out \in PlanReplies :
        LET r == PostSlot
            planResult == generateSourceQueries(cfg.llm, loc[r].enrichedProfile, out)
        IN IF planResult.threw
           THEN Fail(r, planResult)
           ELSE /\ events' = events
                /\ closed' = closed
                /\ pc' = [pc EXCEPT ![r] = "run.allSettled"]
                /\ loc' = [loc EXCEPT ![r] = [at |-> "gather", name |-> loc[r].name,
                                              enrichedProfile |-> loc[r].enrichedProfile,
                                              planResult |-> planResult]]
    /\ UNCHANGED <<cfg, now, ticks, feedCache, req, resp, posts, fnIn, fnOut>>

\* handleRun from the join of the collectors to the await of rankFeedItems
RunGathered ==
    /\ pc[PostSlot] = "run.allSettled"
    /\ \E upstream \in UpstreamAnswers :
        LET r == PostSlot
            candidateResult == gatherCandidateContent(cfg.search, loc[r].planResult, upstream)
        IN /\ Emit(r, <<Log("Fetched candidate items via",
                            IF candidateResult.mode = "llm" THEN "LLM query plan"
                            ELSE "keyword fallback plan",
                            <<Len(candidateResult.items)>>, "info"),
                        [type |-> "candidate_pool", items |-> candidateResult.items,
                         plan |-> candidateResult.plan, mode |-> candidateResult.mode],
                        Stage("RankAndExplain"),
                        Log("Ranking & explaining (LLM)", "", <<>>, "info")>>)
           /\ pc' = [pc EXCEPT ![r] = "run.rankFeedItems"]
           /\ loc' = [loc EXCEPT ![r] = [at |-> "rank", name |-> loc[r].name,
                                         enrichedProfile |-> loc[r].enrichedProfile,
                                         candidateContent |-> candidateResult.items]]
    /\ UNCHANGED <<cfg, now, ticks, feedCache, req, closed, resp, posts, fnIn, fnOut>>

\* handleRun, lines 2594-2621, at clock reading t: the events sent and the cache left
DeliverMutant(cache, feed, profile, name, t) ==
    [events |-> <<Log("Ranking complete. Exploit + explore", "",
                      <<Len(feed.exploitation), Len(feed.exploration)>>, "success"),
                  [type |-> "feed", items |-> feed.items,
                   exploitationCount |-> Len(feed.exploitation),
                   explorationCount |-> Len(feed.exploration),
                   explorationItems |-> feed.exploration,
                   remaining |-> feed.remaining],
                  CompleteEvent("Run complete.")>>,
     cache |-> WriteFeed(cleanupFeedCache(cache, t), feed.items,
                         profile, name, t + FEED_CACHE_TTL)]
\* an entry for the remaining candidates as well
DeliverRemainingMutant(cache, feed, profile, name, t) ==
    [events |-> <<Log("Ranking complete. Exploit + explore", "",
                      <<Len(feed.exploitation), Len(feed.exploration)>>, "success"),
                  [type |-> "feed", items |-> feed.items,
                   exploitationCount |-> Len(feed.exploitation),
                   explorationCount |-> Len(feed.exploration),
                   explorationItems |-> feed.exploration,
                   remaining |-> feed.remaining],
                  CompleteEvent("Run complete.")>>,
     cache |-> WriteFeed(cleanupFeedCache(cache, t),
                         feed.items \o feed.exploration \o feed.remaining,
                         profile, name, t + FEED_CACHE_TTL)]
\* a rewritten entry keeps the expiry it had
DeliverKeepExpiryMutant(cache, feed, profile, name, t) ==
    LET swept == cleanupFeedCache(cache, t)
        written == WriteFeed(swept, feed.items \o feed.exploration, profile, name,
                             t + FEED_CACHE_TTL)
    IN [events |-> <<Log("Ranking complete. Exploit + explore", "",
                         <<Len(feed.exploitation), Len(feed.exploration)>>, "success"),
                     [type |-> "feed", items |-> feed.items,
                      exploitationCount |-> Len(feed.exploitation),
                      explorationCount |-> Len(feed.exploration),
                      explorationItems |-> feed.exploration,
                      remaining |-> feed.remaining],
                     CompleteEvent("Run complete.")>>,
        cache |-> [k \in DOMAIN written |->
                      IF k \in DOMAIN swept
                      THEN [written[k] EXCEPT !.expires = swept[k].expires]
                      ELSE written[k]]]
Deliver(cache, feed, profile, name, t) ==
    [events |-> <<Log("Ranking complete. Exploit + explore", "",
                      <<Len(feed.exploitation), Len(feed.exploration)>>, "success"),
                  [type |-> "feed", items |-> feed.items,
                   exploitationCount |-> Len(feed.exploitation),
                   explorationCount |-> Len(feed.exploration),
                   explorationItems |-> feed.exploration,
                   remaining |-> feed.remaining],
                  CompleteEvent("Run complete.")>>,
     cache |-> WriteFeed(cleanupFeedCache(cache, t), feed.items \o feed.exploration,
                         profile, name, t + FEED_CACHE_TTL)]

\* an await between the sweep and the writes: the sweep and the first write
\* in one step, the events and the other writes in a later one
RunRankedAtMutant(r) ==
    /\ pc[r] = "run.rankFeedItems"
    /\ \E out \in RankReplies, d \in ClockSteps :
        LET ranking == rankFeedItems(cfg.llm, loc[r].enrichedProfile,
                                     loc[r].candidateContent, out)
            feed == AssembleFeed(ranking)
            delivered == Deliver(feedCache, feed, loc[r].enrichedProfile,
                                 loc[r].name, now + d)
        IN /\ ReadClock(d)
           /\ IF loc[r].at = "rank"
              THEN /\ feedCache' = WriteFeed(cleanupFeedCache(feedCache, now + d),
                                             FirstN(feed.items \o feed.exploration, 1),
                                             loc[r].enrichedProfile, loc[r].name,
                                             now + d + FEED_CACHE_TTL)
                   /\ loc' = [loc EXCEPT ![r].at = "writing"]
                   /\ UNCHANGED <<events, closed, pc>>
              ELSE /\ Emit(r, delivered.events)
                   /\ feedCache' = delivered.cache
                   /\ closed' = [closed EXCEPT ![r] = TRUE]
                   /\ pc' = [pc EXCEPT ![r] = "done"]
                   /\ loc' = [loc EXCEPT ![r] = NoLocals]
    /\ UNCHANGED <<cfg, req, resp, posts, fnIn, fnOut>>

\* the writes of a run that then ends in an error
RunRankedAtErrorMutant(r) ==
    /\ pc[r] = "run.rankFeedItems"
    /\ \E out \in RankReplies, d \in ClockSteps :
        LET ranking == rankFeedItems(cfg.llm, loc[r].enrichedProfile,
                                     loc[r].candidateContent, out)
            delivered == Deliver(feedCache, AssembleFeed(ranking), loc[r].enrichedProfile,
                                 loc[r].name, now + d)
        IN /\ ReadClock(d)
           /\ feedCache' = delivered.cache
           /\ Fail(r, [message |-> "Ranking failed"])
    /\ UNCHANGED <<cfg, req, resp, posts, fnIn, fnOut>>

\* handleRun of the POST in slot r from the return of rankFeedItems to its
\* end, and the finally of POST: one synchronous stretch, there is no await in it
RunRankedAt(r) ==
    /\ pc[r] = "run.rankFeedItems"
    /\ \E out \in RankReplies, d \in ClockSteps :
        LET ranking == rankFeedItems(cfg.llm, loc[r].enrichedProfile,
                                     loc[r].candidateContent, out)
            delivered == Deliver(feedCache, AssembleFeed(ranking), loc[r].enrichedProfile,
                                 loc[r].name, now + d)
        IN /\ ReadClock(d)
           /\ Emit(r, delivered.events)
           /\ feedCache' = delivered.cache
           /\ closed' = [closed EXCEPT ![r] = TRUE]
           /\ pc' = [pc EXCEPT ![r] = "done"]
           /\ loc' = [loc EXCEPT ![r] = NoLocals]
    /\ UNCHANGED <<cfg, req, resp, posts, fnIn, fnOut>>

RunRanked == RunRankedAt(PostSlot)

GetName == <<"Ada", " ", "L">>

\* a lookup that renews the lifetime of the entry it finds
GetRequestMutant ==
    /\ pc[GetSlot] \in {"idle", "done"}
    /\ \E itemId \in ItemIdInputs, d \in ClockSteps :
        LET r == GetSlot
            swept == cleanupFeedCache(feedCache, now + d)
        IN /\ req' = [req EXCEPT ![r] = [kind |-> "GET", itemId |-> itemId, name |-> GetName]]
           /\ IF itemId = <<>>
              THEN /\ d = 0
                   /\ UNCHANGED <<now, ticks, feedCache>>
                   /\ resp' = [resp EXCEPT ![r] = [status |-> 400,
                                                   error |-> "itemId is required."]]
                   /\ pc' = [pc EXCEPT ![r] = "done"]
                   /\ loc' = [loc EXCEPT ![r] = NoLocals]
              ELSE /\ ReadClock(d)
                   /\ feedCache' = [k \in DOMAIN swept |->
                                      IF k = itemId
                                      THEN [swept[k] EXCEPT !.expires = now + d + FEED_CACHE_TTL]
                                      ELSE swept[k]]
                   /\ IF itemId \notin DOMAIN swept
                      THEN /\ resp' = [resp EXCEPT ![r] =
                                          [status |-> 404,
                                           error |-> "Feed item expired or unknown."]]
                           /\ pc' = [pc EXCEPT ![r] = "done"]
                           /\ loc' = [loc EXCEPT ![r] = NoLocals]
                      ELSE /\ resp' = [resp EXCEPT ![r] = NoResponse]
                           /\ pc' = [pc EXCEPT ![r] = "get.createDeepenDigest"]
                           /\ loc' = [loc EXCEPT ![r] = [at |-> "digest",
                                                         entry |-> swept[itemId]]]
    /\ UNCHANGED <<cfg, events, closed, posts, fnIn, fnOut>>
\* GET up to its response or to the await of createDeepenDigest; an absent or
\* empty itemId is <<>>
GetRequest ==
    /\ pc[GetSlot] \in {"idle", "done"}
    /\ \E itemId \in ItemIdInputs, d \in ClockSteps :
        LET r == GetSlot
            swept == cleanupFeedCache(feedCache, now + d)
        IN /\ req' = [req EXCEPT ![r] = [kind |-> "GET", itemId |-> itemId, name |-> GetName]]
           /\ IF itemId = <<>>
              THEN /\ d = 0
                   /\ UNCHANGED <<now, ticks, feedCache>>
                   /\ resp' = [resp EXCEPT ![r] = [status |-> 400,
                                                   error |-> "itemId is required."]]
                   /\ pc' = [pc EXCEPT ![r] = "done"]
                   /\ loc' = [loc EXCEPT ![r] = NoLocals]
              ELSE /\ ReadClock(d)
                   /\ feedCache' = swept
                   /\ IF itemId \notin DOMAIN swept
                      THEN /\ resp' = [resp EXCEPT ![r] =
                                          [status |-> 404,
                                           error |-> "Feed item expired or unknown."]]
                           /\ pc' = [pc EXCEPT ![r] = "done"]
                           /\ loc' = [loc EXCEPT ![r] = NoLocals]
                      ELSE /\ resp' = [resp EXCEPT ![r] = NoResponse]
                           /\ pc' = [pc EXCEPT ![r] = "get.createDeepenDigest"]
                           /\ loc' = [loc EXCEPT ![r] = [at |-> "digest",
                                                         entry |-> swept[itemId]]]
    /\ UNCHANGED <<cfg, events, closed, posts, fnIn, fnOut>>

\* GET from the return of createDeepenDigest to its response
GetDigested ==
    /\ pc[GetSlot] = "get.createDeepenDigest"
    /\ \E out \in DeepenReplies :
        LET r == GetSlot
        IN /\ resp' = [resp EXCEPT ![r] =
                          [status |-> 200,
                           digest |-> createDeepenDigest(cfg.llm, loc[r].entry.profile,
                                                         loc[r].entry.item, req[r].name, out)]]
           /\ pc' = [pc EXCEPT ![r] = "done"]
           /\ loc' = [loc EXCEPT ![r] = NoLocals]
    /\ UNCHANGED <<cfg, now, ticks, feedCache, req, events, closed, posts, fnIn, fnOut>>

Next ==
    \/ PostRequest
    \/ DiscoverDone
    \/ RunDiscovered
    \/ RunResolved
    \/ RunHarvested
    \/ RunProfileBuilt
    \/ RunAugmented
    \/ RunPlanned
    \/ RunGathered
    \/ RunRanked
    \/ GetRequest
    \/ GetDigested

Spec == Init /\ [][Next]_vars

\* a step of a handler that is suspended at an await of the stream
StreamStep ==
    \/ DiscoverDone
    \/ RunDiscovered
    \/ RunResolved
    \/ RunHarvested
    \/ RunProfileBuilt
    \/ RunAugmented
    \/ RunPlanned
    \/ RunGathered
    \/ RunRanked

StreamNext == PostRequest \/ StreamStep

\* the awaits a stream handler can be suspended at
Awaits == {"discover.discoverCandidates", "run.discoverCandidates",
           "run.resolveIdentities", "run.harvestIdentities", "run.buildProfileCard",
           "run.augmentProfileSignals", "run.generateSourceQueries",
           "run.allSettled", "run.rankFeedItems"}

\* the event loop resumes the suspended handler: it leaves the await it is at
Resume ==
    /\ pc[PostSlot] \in Awaits
    /\ \E q \in (Awaits \cup {"done"}) \ {pc[PostSlot]} :
           pc' = [pc EXCEPT ![PostSlot] = q]

\* The streams on their own, with the guarantee that every await of a handler
\* ends: each collaborator call either answers or is cut by its timeout
\* (fetchWithTimeout, the client's own timeout), so a suspended handler is
\* eventually resumed.
FairSpec == Init /\ [][StreamNext]_vars /\ WF_pc(Resume)

(***************************************************************************)
(* Properties of the event stream.                                         *)
(***************************************************************************)
IsPrefix(s, t) == Len(s) <= Len(t) /\ SubSeq(t, 1, Len(s)) = s

OfType(evs, type) == LET Is(e) == e.type = type IN SelectSeq(evs, Is)

StageStates(evs) == LET st == OfType(evs, "stage") IN [i \in 1..Len(st) |-> st[i].state]

IsTerminal(e) == e.type \in {"complete", "error"}

Terminals(evs) == SelectSeq(evs, IsTerminal)

Streaming == req[PostSlot].kind = "POST" /\ resp[PostSlot].status = 200

RunPhase == Streaming /\ req[PostSlot].phase = "run"

Completed(evs) == OfType(evs, "complete") # <<>>

\* the stage whose work a suspended run is doing
StagesBegun ==
    CASE pc[PostSlot] = "run.discoverCandidates" -> 0
      [] pc[PostSlot] = "run.resolveIdentities" -> 1
      [] pc[PostSlot] = "run.harvestIdentities" -> 2
      [] pc[PostSlot] \in {"run.buildProfileCard", "run.augmentProfileSignals"} -> 3
      [] pc[PostSlot] \in {"run.generateSourceQueries", "run.allSettled"} -> 4
      [] pc[PostSlot] = "run.rankFeedItems" -> 5
      [] OTHER -> Len(StageStates(events[PostSlot]))

\* C1: in a run the stage events are a prefix of ResolveEntities,
\* HarvestPublicData, BuildProfile, FetchCandidates, RankAndExplain (in that
\* order, each at most once, none skipped); the work a run is suspended in is
\* always the work of the stage announced last, so no two stages overlap; and
\* a completed run has announced all five.
C1_StageOrder ==
    RunPhase =>
        /\ IsPrefix(StageStates(events[PostSlot]),
                    <<"ResolveEntities", "HarvestPublicData", "BuildProfile",
                      "FetchCandidates", "RankAndExplain">>)
        /\ Len(StageStates(events[PostSlot])) = StagesBegun
        /\ Completed(events[PostSlot]) => Len(StageStates(events[PostSlot])) = 5

C1_Witness ==
    /\ RunPhase
    /\ Completed(events[PostSlot])
    /\ StageStates(events[PostSlot]) = RunStages

\* C2: a stream has at most one terminal event, it is the last event, the
\* stream is closed exactly when it has one, and events once sent stay; a
\* rejected augmentation or query plan ends the stream with an error event
\* carrying the message of what was thrown; and every started stream is
\* eventually closed.
C2_Terminates ==
    /\ [](Streaming =>
            /\ Len(Terminals(events[PostSlot])) <= 1
            /\ closed[PostSlot] <=> Len(Terminals(events[PostSlot])) = 1
            /\ closed[PostSlot] => IsTerminal(events[PostSlot][Len(events[PostSlot])])
            /\ closed[PostSlot] <=> pc[PostSlot] = "done"
            /\ \A i \in 1..Len(events[PostSlot]) :
                  events[PostSlot][i].type = "error"
                     => events[PostSlot][i].message \in
                           {"Candidate confirmation is required.",
                            "TypeError: value.replace is not a function",
                            "TypeError: not iterable",
                            "TypeError: slice is not a function"})
    /\ [][/\ pc[PostSlot] \notin {"idle", "done"}
             => IsPrefix(events[PostSlot], events'[PostSlot])
          /\ (/\ pc[PostSlot] = "run.augmentProfileSignals"
              /\ loc[PostSlot].profileCard.defects \cap {"keywords", "queries"} # {})
             => /\ events'[PostSlot] =
                       Append(events[PostSlot], ErrorEvent("TypeError: not iterable"))
                /\ closed'[PostSlot]
          /\ (/\ pc[PostSlot] = "run.generateSourceQueries"
              /\ cfg.llm
              /\ "evidence" \in loc[PostSlot].enrichedProfile.defects)
             => /\ events'[PostSlot] =
                       Append(events[PostSlot],
                              ErrorEvent("TypeError: slice is not a function"))
                /\ closed'[PostSlot]]_vars
    /\ [](Streaming => <>closed[PostSlot])

C2_Witness ==
    /\ RunPhase
    /\ closed[PostSlot]
    /\ OfType(events[PostSlot], "error") = <<ErrorEvent("TypeError: slice is not a function")>>
    /\ OfType(events[PostSlot], "profile") # <<>>
    /\ StageStates(events[PostSlot]) = SubSeq(RunStages, 1, 4)

\* C3: a run gets past the confirm step only with the candidate whose id is the
\* candidateId that was supplied: an absent id, or one that matches no candidate
\* of the re-run discovery, ends the stream with the confirmation-required error
\* and no stage event.
C3_ConfirmationRequired ==
    RunPhase =>
        /\ (~req[PostSlot].body.hasId \/ req[PostSlot].body.candidateId = <<>>)
              => events[PostSlot] = <<ErrorEvent("Candidate confirmation is required.")>>
        /\ pc[PostSlot] = "run.resolveIdentities"
              => loc[PostSlot].confirmed.id = req[PostSlot].body.candidateId

\* the items a feed event delivers: the feed and its exploration slice
Delivered(feed) == feed.items \o feed.explorationItems

\* C4: the step that emits complete in a run leaves the feed event before it in
\* the stream and a cache entry holding each delivered item; no step emits
\* complete without both.
C4_CompleteAfterFeedAndCache ==
    [][(/\ req'[PostSlot].kind = "POST"
        /\ req'[PostSlot].phase = "run"
        /\ Completed(events'[PostSlot])
        /\ ~Completed(events[PostSlot]))
       => LET evs == events'[PostSlot]
              feeds == OfType(evs, "feed")
          IN /\ Len(feeds) = 1
             /\ evs[Len(evs)].type = "complete"
             /\ evs[Len(evs) - 1].type = "feed"
             /\ \A i \in 1..Len(Delivered(feeds[1])) :
                   /\ Delivered(feeds[1])[i].id \in DOMAIN feedCache'
                   /\ feedCache'[Delivered(feeds[1])[i].id].item = Delivered(feeds[1])[i]]_vars

C4_Witness ==
    /\ RunPhase
    /\ Completed(events[PostSlot])
    /\ OfType(events[PostSlot], "feed")[1].explorationItems # <<>>
    /\ \A i \in 1..Len(Delivered(OfType(events[PostSlot], "feed")[1])) :
          Delivered(OfType(events[PostSlot], "feed")[1])[i].id \in DOMAIN feedCache

\* a step taken by the GET handler from its start (the POST slot does not move)
LookupStep ==
    /\ pc[GetSlot] \in {"idle", "done"}
    /\ pc'[PostSlot] = pc[PostSlot]
    /\ posts' = posts
    /\ req'[GetSlot].kind = "GET"
    /\ req'[GetSlot].itemId # <<>>

\* C5: an entry written when the clock reads T expires at T + 15 minutes; while
\* the clock reads less than that no step removes it and a lookup of its id
\* finds it; once the clock reads more, a lookup of its id answers not-found
\* and the entry is gone.
C5_CacheLifetime ==
    [][/\ \A k \in DOMAIN feedCache' :
             (k \notin DOMAIN feedCache \/ feedCache'[k] # feedCache[k])
                => feedCache'[k].expires = now' + 15 * 60 * 1000
       /\ \A k \in DOMAIN feedCache :
             now' < feedCache[k].expires => k \in DOMAIN feedCache'
       /\ LookupStep =>
             LET k == req'[GetSlot].itemId
             IN /\ (k \in DOMAIN feedCache /\ now' < feedCache[k].expires)
                      => /\ pc'[GetSlot] = "get.createDeepenDigest"
                         /\ resp'[GetSlot].status # 404
                /\ (k \in DOMAIN feedCache /\ now' > feedCache[k].expires)
                      => /\ resp'[GetSlot].status = 404
                         /\ k \notin DOMAIN feedCache']_vars

\* an entry written at T = 0 has been looked up at T + 15min01s and was not found
C5_Witness ==
    /\ RunPhase
    /\ Completed(events[PostSlot])
    /\ \E i \in 1..Len(OfType(events[PostSlot], "feed")[1].items) :
          OfType(events[PostSlot], "feed")[1].items[i].id = <<"arxiv:", "1">>
    /\ req[GetSlot] = [kind |-> "GET", itemId |-> <<"arxiv:", "1">>, name |-> GetName]
    /\ resp[GetSlot].status = 404
    /\ <<"arxiv:", "1">> \notin DOMAIN feedCache
    /\ now = 15 * 60 * 1000 + 1000

BlankName(body) == ~body.hasName \/ \A i \in 1..Len(body.name) : body.name[i] \in {" ", "\t"}

NoCandidateId(body) == ~body.hasId \/ body.candidateId = <<>>

Accepted == req[PostSlot].kind = "POST" /\ pc[PostSlot] = "done"

\* C7 as stated: every input error (a blank name, a run without candidateId)
\* ends with a terminal error event.
C7_InputErrorEvent ==
    (/\ Accepted
     /\ \/ BlankName(req[PostSlot].body)
        \/ req[PostSlot].phase = "run" /\ NoCandidateId(req[PostSlot].body))
    => OfType(events[PostSlot], "error") # <<>>

\* C7, amended: a POST with a blank name is answered 400 'Name is required.' and
\* starts no stream (no event at all); a run POST with a name and no candidateId
\* streams exactly one event, the confirmation-required error, and is closed;
\* in both cases the request is over at once (no stage runs) and the cache is
\* left as it was.
C7_InputErrors ==
    [][(/\ posts' = posts + 1
        /\ \/ BlankName(req'[PostSlot].body)
           \/ req'[PostSlot].phase = "run" /\ NoCandidateId(req'[PostSlot].body))
       => /\ pc'[PostSlot] = "done"
          /\ feedCache' = feedCache
          /\ IF BlankName(req'[PostSlot].body)
             THEN /\ resp'[PostSlot] = [status |-> 400, error |-> "Name is required."]
                  /\ events'[PostSlot] = <<>>
                  /\ ~closed'[PostSlot]
             ELSE /\ resp'[PostSlot].status = 200
                  /\ events'[PostSlot] =
                        <<ErrorEvent("Candidate confirmation is required.")>>
                  /\ closed'[PostSlot]]_vars

C7_Witness ==
    /\ Accepted
    /\ req[PostSlot].body.hasName
    /\ req[PostSlot].body.name = <<" ", "\t">>
    /\ resp[PostSlot].status = 400
    /\ events[PostSlot] = <<>>

\* the events of the stage: from its stage event up to the next stage event
StageEvents(evs, state) ==
    LET first == CHOOSE i \in 1..Len(evs) : evs[i] = Stage(state)
        later == {j \in (first + 1)..Len(evs) : evs[j].type = "stage"}
        last  == IF later = {} THEN Len(evs)
                 ELSE (CHOOSE j \in later : \A m \in later : j <= m) - 1
    IN SubSeq(evs, first, last)

\* a log line that says the fallback or heuristic mode was used
Discloses(e) ==
    /\ e.type = "log"
    /\ e.label \in {"fallback", "heuristic merge", "heuristic augmentation",
                    "keyword fallback plan"}

\* C9: without a language model a run that is given a candidate ends with
\* complete, never error, its feed is not empty when the gathered pool is not,
\* and each of the stages with an LLM path (profile, query plan, ranking) has a
\* log line that says the fallback or heuristic mode was used.
C9_FallbackDisclosed ==
    (RunPhase /\ ~cfg.llm /\ closed[PostSlot] /\ ~NoCandidateId(req[PostSlot].body))
    => /\ Completed(events[PostSlot])
       /\ OfType(events[PostSlot], "candidate_pool")[1].items # <<>>
             => OfType(events[PostSlot], "feed")[1].items # <<>>
       /\ \A state \in {"BuildProfile", "FetchCandidates", "RankAndExplain"} :
             \E i \in 1..Len(StageEvents(events[PostSlot], state)) :
                Discloses(StageEvents(events[PostSlot], state)[i])

(***************************************************************************)
(* discoverCandidates on its own: one call per behaviour step, under the   *)
(* environment of Init, with whatever the search API and the LLM answer.   *)
(***************************************************************************)
ULinked == Url("https", <<"w", "ww.", "l", "inkedin.com">>, <<"in", "ada">>)
UBad    == Url("ftp", <<>>, <<"not a url">>)
UGhUp   == Url("https", <<"G", "ithub.com">>, <<"Ada">>)

\* seven entries with distinct primary URLs, as an LLM may return them
SevenEntries ==
    [i \in 1..7 |-> ClusterEntry(Url("https", <<"s", "ite.org">>, <<ToString(i)>>), <<>>, "")]

DiscoverNames == { <<"A", " ", "L">>, <<"Ada">>, <<"A", " ", "\t", "B">> }

DiscoverSearches ==
    { Throw,
      [kind |-> "ok", items |-> <<>>, typed |-> TRUE],
      [kind |-> "ok", items |-> <<ULinked, UBad, NoUrl>>, typed |-> TRUE],
      [kind |-> "ok", items |-> <<UGh, USite, UGh, ULinked>>, typed |-> TRUE],
      [kind |-> "ok", items |-> <<USite, UBlog>>, typed |-> FALSE] }

DiscoverClusterReplies ==
    { LlmThrow, NoJson, BadJson,
      [kind |-> "json", candidates |-> <<>>],
      [kind |-> "json", candidates |-> <<ClusterEntry(UGh, <<USite, ULinked>>, "")>>],
      [kind |-> "json",
       candidates |-> <<[ClusterEntry(UGh, <<>>, "") EXCEPT !.typed = FALSE]>>],
      [kind |-> "json", candidates |-> SevenEntries] }

DiscoverMergeReplies ==
    { LlmThrow, BadJson,
      [kind |-> "json", candidates |-> <<>>],
      [kind |-> "json", candidates |-> <<ClusterEntry(USite, <<UBlog>>, "site"),
                                          ClusterEntry(UGhUp, <<>>, "")>>],
      [kind |-> "json", candidates |-> <<ClusterEntry(NoUrl, <<>>, "")>>],
      [kind |-> "json", candidates |-> SevenEntries] }

CallDiscover ==
    /\ \E name \in DiscoverNames, search \in DiscoverSearches,
          clusterOut \in DiscoverClusterReplies, mergeOut \in DiscoverMergeReplies :
          /\ fnIn' = [op |-> "discoverCandidates", name |-> name, search |-> search,
                      clusterOut |-> clusterOut, mergeOut |-> mergeOut]
          /\ fnOut' = discoverCandidates(name, cfg.search, cfg.llm, search,
                                         clusterOut, mergeOut)
    /\ UNCHANGED <<cfg, now, ticks, feedCache, req, pc, loc, events, closed, resp, posts>>

DiscoverSpec == Init /\ [][CallDiscover]_vars

\* the search yields no result: no keys, a failed request, or no usable link
ZeroResults ==
    \/ ~cfg.search
    \/ fnIn.search.kind = "throw"
    \/ \A i \in 1..Len(fnIn.search.items) :
          fnIn.search.items[i] \in {ULinked, UBad, NoUrl}

\* the slug of each name of DiscoverNames: lower case, a dash per run of blanks
SlugOf(name) ==
    CASE name = <<"A", " ", "L">> -> <<"a", "-", "l">>
      [] name = <<"Ada">> -> <<"ada">>
      [] name = <<"A", " ", "\t", "B">> -> <<"a", "-", "b">>

\* C8: discoverCandidates never raises and never returns an empty list; with
\* zero search results its mode is fallback and its candidates are exactly two,
\* at https://github.com/<slug> and https://<slug>.com, a function of the name.
C8_DiscoveryNeverRaises ==
    fnIn.op = "discoverCandidates" =>
        /\ ~fnOut.threw
        /\ fnOut.candidates # <<>>
        /\ ZeroResults =>
              /\ fnOut.mode = "fallback"
              /\ Len(fnOut.candidates) = 2
              /\ fnOut.candidates[1].profileUrl =
                    Url("https", <<"g", "ithub.com">>, SlugOf(fnIn.name))
              /\ fnOut.candidates[2].profileUrl =
                    Url("https", SlugOf(fnIn.name) \o <<".com">>, <<>>)

(***************************************************************************)
(* gatherCandidateContent from the query plan on: one call per step.       *)
(***************************************************************************)
FourQueries == << <<"q1">>, <<"q2">>, <<"q3">>, <<"q4">> >>

GatherPlans ==
    { PlanResult(Plan(a, h, n), "fallback") :
        a \in { <<>>, << <<"q1">> >>, << <<"q1">>, <<"q2">> >> },
        h \in { << <<"q1">> >>, << <<"q1">>, <<"q2">> >> },
        n \in { << <<"q1">> >>, << <<"q1">>, <<"q2">> >> } }
    \cup { PlanResult(Plan(FourQueries, FourQueries, FourQueries), "llm") }

HostInitials == <<"a", "b", "c", "d", "e", "f", "g", "h", "i", "j", "k", "l">>

\* every call answers three entries: twelve arXiv ids, seven Hacker News ids
\* (the fourth call repeats the third), twelve news ids
BigUpstream ==
    [arxiv |-> [k \in 1..4 |->
                   [kind |-> "ok",
                    entries |-> [j \in 1..3 |-> ArxivEntry(ToString(3 * (k - 1) + j))]]],
     hn    |-> << [kind |-> "ok",
                   entries |-> <<Url("https", <<"n", "ews.ycombinator.com">>, <<"1">>),
                                 Url("http", <<"a", "b.org">>, <<>>),
                                 Url("http", <<"x", "y.org">>, <<>>)>>],
                  [kind |-> "ok",
                   entries |-> <<Url("http", <<"1", "x.org">>, <<>>),
                                 Url("http", <<"G", "x.org">>, <<>>),
                                 Url("http", <<"P", "x.org">>, <<>>)>>],
                  [kind |-> "ok", entries |-> <<Url("http", <<"-", "x.org">>, <<>>)>>] >>,
     news  |-> [k \in 1..4 |->
                   [kind |-> "ok",
                    entries |-> [j \in 1..3 |->
                                    Url("https", <<HostInitials[3 * (k - 1) + j], "news.com">>,
                                        <<>>)]]]]

GatherUpstreams ==
    [arxiv : {<<Throw>>, ArxivUp}, hn : {<<Throw>>, HnUp}, news : {<<Throw>>, NewsUp}]
    \cup {BigUpstream}

CallGather ==
    /\ \E planResult \in GatherPlans, upstream \in GatherUpstreams :
          /\ fnIn' = [op |-> "gatherCandidateContent", planResult |-> planResult,
                      upstream |-> upstream]
          /\ fnOut' = gatherCandidateContent(cfg.search, planResult, upstream)
    /\ UNCHANGED <<cfg, now, ticks, feedCache, req, pc, loc, events, closed, resp, posts>>

GatherSpec == Init /\ [][CallGather]_vars

\* what the calls of one source return, call by call
Returned(source) ==
    LET plan == fnIn.planResult.plan
        up   == fnIn.upstream
    IN CASE source = "arxiv" ->
              Flatten([i \in 1..Len(plan.arxiv) |-> fetchArxiv(AnswerAt(up.arxiv, i), 3)])
         [] source = "hn" ->
              Flatten([i \in 1..Len(plan.hn) |->
                          fetchHackerNews(cfg.search, AnswerAt(up.hn, i), 3)])
         [] source = "news" ->
              Flatten([i \in 1..Len(plan.news) |->
                          fetchNewsArticles(AnswerAt(up.news, i), 3)])

\* C10: when every call of one source fails, gather does not raise, the pool
\* has no item of that source, and it has every item that the calls of the
\* other two sources returned.
C10_SettleAll ==
    fnIn.op = "gatherCandidateContent" =>
        \A failed \in {"arxiv", "hn", "news"} :
            fnIn.upstream[failed] = <<Throw>> =>
                /\ ~fnOut.threw
                /\ \A i \in 1..Len(fnOut.items) : fnOut.items[i].source # failed
                /\ \A other \in {"arxiv", "hn", "news"} \ {failed} :
                      \A i \in 1..Len(Returned(other)) :
                         Returned(other)[i] \in Range(fnOut.items)

(***************************************************************************)
(* rankFeedItems, rebalanceFeed and the feed assembly of handleRun, called  *)
(* on their own.                                                            *)
(***************************************************************************)
RankProfiles ==
    { Profile(<<"p">>, <<>>, <<>>, <<>>),
      Profile(<<"p">>, <<"neural", "agents">>, <<>>, <<>>) }

PoolItem(source, n) ==
    Item(<<source, ToString(n)>>, source, Url("https", <<source, ".org">>, <<ToString(n)>>))

\* candidate pools: empty, two sources, one crowded source, three full
\* sources with spares, and a pool of 31 whose last item is the only hn item
RankPools ==
    { <<>>,
      <<PoolItem("arxiv", 1), PoolItem("news", 1)>>,
      <<PoolItem("arxiv", 1), PoolItem("arxiv", 2), PoolItem("arxiv", 3),
        PoolItem("arxiv", 4), PoolItem("hn", 1)>>,
      [i \in 1..12 |-> PoolItem(<<"arxiv", "hn", "news">>[((i - 1) % 3) + 1],
                                ((i - 1) \div 3) + 1)],
      [i \in 1..31 |-> IF i <= CANDIDATE_TARGET THEN PoolItem("arxiv", i)
                       ELSE PoolItem("hn", i)] }

\* replies of the ranking prompt: the call throws or times out, a text
\* without braces, braces that do not parse, no usable top, an empty top, a
\* top of ids that are no candidates, and tops that select candidates: two
\* of them, one twice, four of one source, and eleven behind an unknown id
RankCallReplies ==
    { LlmThrow, NoJson, BadJson,
      [kind |-> "json", top |-> <<>>, hasTop |-> FALSE],
      [kind |-> "json", top |-> <<>>, hasTop |-> TRUE],
      [kind |-> "json", top |-> << <<"bogus">>, <<"arxiv", "99">> >>, hasTop |-> TRUE],
      [kind |-> "json", top |-> << <<"arxiv", "2">>, <<"bogus">>, <<"hn", "1">> >>,
       hasTop |-> TRUE],
      [kind |-> "json", hasTop |-> TRUE,
       top |-> << <<"news", "1">>, <<"arxiv", "1">>, <<"arxiv", "1">> >>],
      [kind |-> "json", hasTop |-> TRUE,
       top |-> << <<"arxiv", "4">>, <<"arxiv", "3">>, <<"hn", "1">>, <<"arxiv", "2">>,
                  <<"arxiv", "1">> >>],
      [kind |-> "json", hasTop |-> TRUE,
       top |-> [i \in 1..12 |-> IF i = 2 THEN <<"bogus">> ELSE <<"arxiv", ToString(i)>>]] }

CallRank ==
    /\ fnIn.op = "none"
    /\ \E profile \in RankProfiles, items \in RankPools, out \in RankCallReplies :
          /\ fnIn' = [op |-> "rankFeedItems", profile |-> profile, items |-> items,
                      out |-> out]
          /\ fnOut' = rankFeedItems(cfg.llm, profile, items, out)
    /\ UNCHANGED <<cfg, now, ticks, feedCache, req, pc, loc, events, closed, resp, posts>>

FeedOf(source, n) ==
    FeedItem(<<source, ToString(n)>>, source,
             Url("https", <<source, ".org">>, <<ToString(n)>>), "snippet", <<"because">>)

\* feed items to rebalance: two sources of the default list, a source outside
\* it, and an id that comes back under another source
RebalanceItems ==
    { FeedOf("arxiv", 1), FeedOf("arxiv", 2), FeedOf("arxiv", 3), FeedOf("hn", 1),
      FeedOf("site", 1), [FeedOf("hn", 2) EXCEPT !.id = <<"arxiv", "1">>] }

MaxFeedLen == 4

RebalanceInputs ==
    UNION { [1..n -> RebalanceItems] : n \in 0..MaxFeedLen }

CapInputs == {1, 2}

SourceLists == { DefaultSources, <<"hn", "arxiv">> }

CallRebalance ==
    /\ fnIn.op = "none"
    /\ \E items \in RebalanceInputs, sources \in SourceLists, perSourceCap \in CapInputs :
          /\ fnIn' = [op |-> "rebalanceFeed", items |-> items, sources |-> sources,
                      perSourceCap |-> perSourceCap]
          /\ fnOut' = [items |-> rebalanceFeed(items, sources, perSourceCap)]
    /\ UNCHANGED <<cfg, now, ticks, feedCache, req, pc, loc, events, closed, resp, posts>>

\* handleRun from the return of rankFeedItems to the feed event
CallAssemble ==
    /\ fnIn.op = "none"
    /\ \E profile \in RankProfiles, items \in RankPools, out \in RankCallReplies :
          LET ranking == rankFeedItems(cfg.llm, profile, items, out)
          IN /\ fnIn' = [op |-> "assembleFeed", items |-> items, ranking |-> ranking]
             /\ fnOut' = AssembleFeed(ranking)
    /\ UNCHANGED <<cfg, now, ticks, feedCache, req, pc, loc, events, closed, resp, posts>>

RankNext == CallRank \/ CallRebalance \/ CallAssemble

RankSpec == Init /\ [][RankNext]_vars

NoIdTwice(items) ==
    \A i, j \in 1..Len(items) : i # j => items[i].id # items[j].id

Min(a, b) == IF a < b THEN a ELSE b

\* the ranking LLM gave nothing to use: it is not configured, the call failed,
\* its text has no JSON object or does not parse, top is missing or no list,
\* or no selected id is a candidate (nothing is left after rebalancing)
RankDegraded ==
    \/ ~cfg.llm
    \/ fnIn.out.kind # "json"
    \/ ~fnIn.out.hasTop
    \/ \A i \in 1..Len(fnIn.out.top) : fnIn.out.top[i] \notin Ids(fnIn.items)

\* the first up to 30 candidates in arrival order with the generic
\* justification, rebalanced
ExpectedFallback ==
    LET n == Min(Len(fnIn.items), 30)
        top == IF fnIn.profile.keywords = <<>> THEN "the topic"
               ELSE fnIn.profile.keywords[1]
    IN rebalanceFeed([i \in 1..n |->
                         [id |-> fnIn.items[i].id, source |-> fnIn.items[i].source,
                          url |-> fnIn.items[i].url, summary |-> "snippet",
                          because |-> <<"Matches interest in", top>>]],
                     <<"arxiv", "hn", "news">>, 3)

\* C11: whenever the ranking LLM fails in any way, or its selection is empty
\* after rebalancing, rankFeedItems returns the deterministic fallback: the
\* first up to 30 candidates in arrival order, each with the generic
\* top-keyword justification, rebalanced; it returns a ranking, never an error.
C11_RankFallback ==
    (fnIn.op = "rankFeedItems" /\ RankDegraded) =>
        /\ fnOut.mode = "fallback"
        /\ fnOut.exploitation = ExpectedFallback

C11_Witness ==
    /\ fnIn.op = "rankFeedItems"
    /\ cfg.llm
    /\ fnIn.out.kind = "json" /\ fnIn.out.hasTop /\ fnIn.out.top # <<>>
    /\ RankDegraded
    /\ Len(fnIn.items) = 31
    /\ Len(fnOut.exploitation) = 9
    /\ \A i \in 1..9 : fnOut.exploitation[i].source = "arxiv"

\* the number of distinct ids whose first occurrence in the input has the source
DistinctOf(items, source) ==
    Cardinality({ i \in 1..Len(items) :
                    /\ items[i].source = source
                    /\ \A j \in 1..(i - 1) : items[j].id # items[i].id })

\* the length of the capped region: per listed source, up to the cap
CappedLen(items, sources, cap) ==
    Sum([k \in 1..Len(sources) |-> Min(cap, DistinctOf(items, sources[k]))])

\* C13: the output of rebalanceFeed has no id twice, and its capped region
\* (the leading part taken per source, before any overflow) has at most k
\* items of each source.
C13_RebalanceCap ==
    fnIn.op = "rebalanceFeed" =>
        LET out == fnOut.items
            n == Min(CappedLen(fnIn.items, fnIn.sources, fnIn.perSourceCap), Len(out))
        IN /\ NoIdTwice(out)
           /\ \A source \in {"arxiv", "hn", "news", "site"} :
                 Cardinality({ i \in 1..n : out[i].source = source }) <= fnIn.perSourceCap

C13_Witness ==
    /\ fnIn.op = "rebalanceFeed"
    /\ ~NoIdTwice(fnIn.items)
    /\ DistinctOf(fnIn.items, "arxiv") > fnIn.perSourceCap
    /\ Len(fnOut.items) > CappedLen(fnIn.items, fnIn.sources, fnIn.perSourceCap)
    /\ Cardinality({ i \in 1..Len(fnOut.items) : fnOut.items[i].source = "arxiv" })
          > fnIn.perSourceCap

\* leftovers minus exploration
MinusIds(items, removed) ==
    LET Kept(it) == it.id \notin Ids(removed) IN SelectSeq(items, Kept)

C15_ExplorationDiverse ==
    fnIn.op = "assembleFeed" =>
        /\ Ids(fnOut.exploration) \subseteq Ids(fnIn.ranking.leftovers)
        /\ Ids(fnOut.exploration) \cap Ids(fnIn.ranking.exploitation) = {}
        /\ Len(fnOut.exploration) <= 2
        /\ \A i, j \in 1..Len(fnOut.exploration) :
              i # j => fnOut.exploration[i].source # fnOut.exploration[j].source

(***************************************************************************)
(* dedupeCandidates called on its own.                                      *)
(***************************************************************************)
DedupeIds == { <<"x">>, <<"x", "-", "2">> }

\* two spellings of one profile URL, and two other URLs
DedupeUrls == { UGh, UGhUp, USite, UBlog }

DedupeCandidates ==
    { Candidate(id, tagForUrl(u), u, <<u>>, m) :
        id \in DedupeIds, u \in DedupeUrls, m \in { <<>>, <<UBlog>> } }

MaxCandidates == 3

CallDedupe ==
    /\ fnIn.op = "none"
    /\ \E candidates \in UNION { [1..n -> DedupeCandidates] : n \in 0..MaxCandidates } :
          /\ fnIn' = [op |-> "dedupeCandidates", candidates |-> candidates]
          /\ fnOut' = [candidates |-> dedupeCandidates(candidates)]
    /\ UNCHANGED <<cfg, now, ticks, feedCache, req, pc, loc, events, closed, resp, posts>>

DedupeSpec == Init /\ [][CallDedupe]_vars

\* a profile URL without its letter case
UrlKey(u) ==
    [scheme |-> u.scheme,
     host |-> [i \in 1..Len(u.host) |-> IF u.host[i] = "G" THEN "g" ELSE u.host[i]],
     path |-> [i \in 1..Len(u.path) |-> IF u.path[i] = "Ada" THEN "ada" ELSE u.path[i]]]

\* id is base, or base with a numeric suffix
Suffixes(base, id) ==
    \/ id = base
    \/ \E n \in 2..(MaxCandidates + 1) : id = base \o <<"-", ToString(n)>>

\* C12: dedupeCandidates returns one entry per distinct profileUrl compared
\* without case, the first occurrence in input order with its metadata kept;
\* the output ids are pairwise distinct, a colliding id being suffixed.
C12_DedupeIdentity ==
    fnIn.op = "dedupeCandidates" =>
        LET in == fnIn.candidates
            out == fnOut.candidates
            First(i) == \A j \in 1..(i - 1) : UrlKey(in[j].profileUrl) # UrlKey(in[i].profileUrl)
            firsts == SelectSeq([i \in 1..Len(in) |-> IF First(i) THEN <<in[i]>> ELSE <<>>],
                                LAMBDA x : x # <<>>)
        IN /\ Len(out) = Len(firsts)
           /\ \A k \in 1..Len(out) :
                 /\ [out[k] EXCEPT !.id = firsts[k][1].id] = firsts[k][1]
                 /\ Suffixes(firsts[k][1].id, out[k].id)
           /\ \A i, j \in 1..Len(out) :
                 i # j => /\ out[i].id # out[j].id
                          /\ UrlKey(out[i].profileUrl) # UrlKey(out[j].profileUrl)

\* x, x again (suffixed to x-2), then a candidate whose own id is x-2
C12_Witness ==
    /\ fnIn.op = "dedupeCandidates"
    /\ Len(fnIn.candidates) = 3
    /\ Len(fnOut.candidates) = 3
    /\ fnIn.candidates[1].id = <<"x">>
    /\ fnIn.candidates[2].id = <<"x">>
    /\ fnIn.candidates[3].id = <<"x", "-", "2">>
    /\ fnIn.candidates[2].mergedFrom # <<>>
    /\ fnOut.candidates[2].id = <<"x", "-", "2">>
    /\ fnOut.candidates[3].id = <<"x", "-", "2", "-", "2">>
    /\ fnOut.candidates[2].mergedFrom = fnIn.candidates[2].mergedFrom

(***************************************************************************)
(* defaultKeywordWeighting over the counts of computeKeywordCounts, called  *)
(* on its own.                                                              *)
(***************************************************************************)
MaxKeywords == 24

\* profile.keywords: three words of the snippets, then words that no snippet has
KeywordList(n) ==
    [i \in 1..n |-> CASE i = 1 -> "neural"
                      [] i = 2 -> "agents"
                      [] i = 3 -> "learning"
                      [] OTHER -> ToString(i)]

WeightDocs ==
    { <<>>,
      <<Snippet("news", <<"robotics">>, UBlog)>>,
      <<Snippet("github", <<"neural">>, UGh)>>,
      <<Snippet("github", <<"neural", "agents">>, UGh), Snippet("website", <<"neural">>, USite)>>,
      <<Snippet("github", <<"neural", "Agents", "learning">>, UGh)>> }

CallWeighting ==
    /\ fnIn.op = "none"
    /\ \E n \in 0..MaxKeywords, docs \in WeightDocs :
          /\ fnIn' = [op |-> "defaultKeywordWeighting", keywords |-> KeywordList(n),
                      docs |-> docs]
          /\ fnOut' = [keywordWeights |->
                          defaultKeywordWeighting(KeywordList(n),
                                                  computeKeywordCounts(KeywordList(n), docs))]
    /\ UNCHANGED <<cfg, now, ticks, feedCache, req, pc, loc, events, closed, resp, posts>>

\* keyword_weights as an LLM may return them, weights in thousandths
Weighted(keyword, weight) == [keyword |-> keyword, weight |-> weight, finite |-> TRUE]

ReturnedWeights ==
    { <<>>,
      <<Weighted("agents", 600), Weighted("robotics", 200)>>,
      <<Weighted("agents", 900), Weighted("robotics", 700), Weighted("vision", 400)>>,
      <<Weighted("agents", 0), Weighted("robotics", 0)>>,
      <<Weighted("agents", 500), Weighted("robotics", 0 - 500)>>,
      <<Weighted("agents", 300), Weighted("robotics", 0 - 100)>>,
      <<Weighted("agents", 500), [Weighted("robotics", 0) EXCEPT !.finite = FALSE]>>,
      <<[Weighted("agents", 0) EXCEPT !.finite = FALSE]>>,
      <<Weighted("", 500), Weighted("vision", 250)>> }

CallNormalize ==
    /\ fnIn.op = "none"
    /\ \E weights \in ReturnedWeights, n \in 0..3 :
          /\ fnIn' = [op |-> "normalizeKeywordWeights", weights |-> weights,
                      keywords |-> KeywordList(n)]
          /\ fnOut' = [keywordWeights |-> normalizeKeywordWeights(weights, KeywordList(n))]
    /\ UNCHANGED <<cfg, now, ticks, feedCache, req, pc, loc, events, closed, resp, posts>>

WeightNext == CallWeighting \/ CallNormalize

WeightSpec == Init /\ [][WeightNext]_vars

\* no keyword occurs in any snippet
NoHits ==
    \A i \in 1..Len(fnIn.keywords), d \in 1..Len(fnIn.docs) :
        \A j \in 1..Len(fnIn.docs[d].words) :
            LowerWord(fnIn.docs[d].words[j]) # fnIn.keywords[i]

\* C16: for a non-empty keyword list the weights of defaultKeywordWeighting
\* (in thousandths) sum to 1000 within 10, and with no hit at all they are
\* all equal.
C16_WeightsNormalized ==
    (fnIn.op = "defaultKeywordWeighting" /\ fnIn.keywords # <<>>) =>
        LET w == fnOut.keywordWeights
            total == Sum([i \in 1..Len(w) |-> w[i].weight])
        IN /\ Len(w) = Len(fnIn.keywords)
           /\ total >= 1000 - 10
           /\ total <= 1000 + 10
           /\ NoHits => \A i, j \in 1..Len(w) : w[i].weight = w[j].weight

(***************************************************************************)
(* harvestIdentities called repeatedly.                                     *)
(***************************************************************************)
MaxCalls == 2

\* sixteen websites, as a confirmed candidate with many support URLs gives
ManySites == [i \in 1..16 |-> Url("https", <<"s", "ite.org">>, <<ToString(i)>>)]

\* seven <item> blocks with distinct links, the third without a link
NewsBlocks ==
    [i \in 1..8 |-> [link |-> IF i = 3 THEN NoUrl
                               ELSE Url("https", <<"n", "ews.org">>, <<ToString(i)>>),
                      words |-> <<"agents">>]]

HarvestIdentityLists ==
    { <<>>, <<UBad>>, <<UGh, USite>>, <<USite, UGhUp, ULinked, UBlog, USite>>,
      ManySites, <<UGh>> \o ManySites, <<UBad, USite, UGh>> }

\* stable collaborators: nothing answers, everything answers, only GitHub and
\* the news feed answer
HarvestWebs ==
    WebAnswers \cup
    { [api |-> [kind |-> "ok", bio |-> <<"neural">>,
                repos |-> <<[html_url |-> UGh, words |-> <<"agents">>],
                            [html_url |-> UBlog, words |-> <<"feed">>]>>],
       page |-> Throw,
       news |-> [kind |-> "ok", blocks |-> <<[link |-> UBlog, words |-> <<"agents">>],
                                              [link |-> USite, words |-> <<"learning">>]>>]],
      [api |-> Throw,
       page |-> [kind |-> "ok", words |-> <<"robotics">>],
       news |-> [kind |-> "ok", blocks |-> NewsBlocks]] }

\* fnIn.again: this call has the identity list and the collaborators of the
\* call before it
CallHarvest ==
    /\ IF fnIn.op = "none" THEN TRUE ELSE fnIn.call < MaxCalls
    /\ \E identities \in HarvestIdentityLists, web \in HarvestWebs :
          /\ fnIn' = [op |-> "harvestIdentities", identities |-> identities, web |-> web,
                      call |-> IF fnIn.op = "none" THEN 1 ELSE fnIn.call + 1,
                      again |-> /\ fnIn.op # "none"
                                /\ fnIn.identities = identities
                                /\ fnIn.web = web]
          /\ fnOut' = [op |-> "harvestIdentities",
                       snippets |-> harvestIdentities(identities, web)]
    /\ UNCHANGED <<cfg, now, ticks, feedCache, req, pc, loc, events, closed, resp, posts>>

HarvestSpec == Init /\ [][CallHarvest]_vars

DiscoverPhase == Streaming /\ req[PostSlot].phase = "discover"

\* the types of the events other than logs, with the state of a stage event
Outline(evs) ==
    LET NotLog(e) == e.type # "log"
        kept == SelectSeq(evs, NotLog)
    IN [i \in 1..Len(kept) |-> IF kept[i].type = "stage" THEN kept[i].state ELSE kept[i].type]

\* C18: a discover stream sends stage DiscoverCandidates, one candidates
\* event, stage AwaitUserConfirm and complete, in that order and nothing else
\* but logs, whatever the discovery mode; it sends no stage of the run phase;
\* and it leaves the feed cache as it was (no sweep, no write).
C18_DiscoverOnly ==
    DiscoverPhase =>
        /\ IsPrefix(Outline(events[PostSlot]),
                    <<"DiscoverCandidates", "candidates", "AwaitUserConfirm", "complete">>)
        /\ closed[PostSlot] => Len(Outline(events[PostSlot])) = 4
        /\ posts = 1 => feedCache = <<>>

(***************************************************************************)
(* The feed cache under several runs and lookups in flight.  A run touches  *)
(* the cache only after its await of rankFeedItems, so a run enters here at *)
(* that await.                                                              *)
(***************************************************************************)
MaxRuns == 2

\* the name each POST was made with
RunName(r) == IF r = PostSlot THEN <<"A">> ELSE <<"B">>

\* the profile each run built: the runs confirmed different candidates
RunProfile(r) == Profile(<<"p">> \o RunName(r), <<"neural">>, <<>>, <<>>)

CacheItem(source, n) ==
    Item(<<source, n>>, IF source = "arxiv:" THEN "arxiv" ELSE "news",
         Url("https", <<source, "org">>, <<n>>))

\* candidate pools of runs: they share the id arxiv:1, and the pool of 13
\* leaves a candidate that is neither delivered nor explored
CachePools ==
    { <<CacheItem("arxiv:", "1"), CacheItem("arxiv:", "2")>>,
      <<CacheItem("news-", "1"), CacheItem("arxiv:", "1")>>,
      [i \in 1..13 |-> IF i <= 6 THEN CacheItem("arxiv:", ToString(i))
                       ELSE CacheItem("news-", ToString(i - 6))] }

\* handleRun of the POST in slot r, up to its await of rankFeedItems (line 2579)
AwaitRank(r) ==
    /\ pc[r] = "idle"
    /\ posts < MaxRuns
    /\ \E items \in CachePools :
          /\ req' = [req EXCEPT ![r] = [kind |-> "POST", phase |-> "run",
                                        body |-> Body(TRUE, RunName(r), TRUE, <<"id">>)]]
          /\ resp' = [resp EXCEPT ![r] = [status |-> 200, error |-> ""]]
          /\ events' = [events EXCEPT ![r] =
                           <<Stage("RankAndExplain"),
                             Log("Ranking & explaining (LLM)", "", <<>>, "info")>>]
          /\ pc' = [pc EXCEPT ![r] = "run.rankFeedItems"]
          /\ loc' = [loc EXCEPT ![r] =
                        [at |-> "rank", name |-> RunName(r),
                         enrichedProfile |-> RunProfile(r),
                         candidateContent |-> items]]
          /\ posts' = posts + 1
    /\ UNCHANGED <<cfg, now, ticks, feedCache, closed, fnIn, fnOut>>

CacheNext ==
    \/ \E r \in RunSlots : AwaitRank(r)
    \/ \E r \in RunSlots : RunRankedAt(r)
    \/ GetRequest
    \/ GetDigested

CacheSpec == Init /\ [][CacheNext]_vars

\* the ids of the items a finished run delivered: feed items and exploration
DeliveredIds(r) ==
    LET feed == OfType(events[r], "feed")[1]
    IN Ids(feed.items) \cup Ids(feed.explorationItems)

\* C19: the sweep-and-write of a run is one uninterrupted access. While a run
\* has not delivered, the cache has no entry of it; once it has, the entries
\* of it that are in the cache are all of its delivered items that no other
\* run has rewritten: every state, and so every lookup, sees all of them or
\* none.
C19_SweepWriteExclusive ==
    \A r \in RunSlots :
        /\ pc[r] # "done" =>
              \A k \in DOMAIN feedCache : feedCache[k].name # RunName(r)
        /\ (pc[r] = "done" /\ OfType(events[r], "feed") # <<>>) =>
              \/ \A k \in DOMAIN feedCache : feedCache[k].name # RunName(r)
              \/ \A k \in DeliveredIds(r) :
                    /\ k \in DOMAIN feedCache
                    /\ feedCache[k].name # RunName(r) =>
                          \E q \in RunSlots \ {r} :
                             /\ pc[q] = "done"
                             /\ k \in DeliveredIds(q)
                             /\ feedCache[k].name = RunName(q)

\* both runs were in flight together, one has delivered, and a lookup that
\* found its entry is still in flight
C19_Witness ==
    /\ pc[PostSlot] = "done"
    /\ pc[PostSlot2] = "done"
    /\ pc[GetSlot] = "get.createDeepenDigest"
    /\ <<"arxiv:", "1">> \in DeliveredIds(PostSlot) \cap DeliveredIds(PostSlot2)
    /\ feedCache[<<"arxiv:", "1">>].name = RunName(PostSlot)
    /\ \E k \in DOMAIN feedCache : feedCache[k].name = RunName(PostSlot2)

\* a run's sweep-and-write, or a lookup's sweep
CacheAccess ==
    \/ LookupStep
    \/ \E r \in RunSlots : pc[r] = "run.rankFeedItems" /\ pc'[r] = "done"

\* C20: right after a cache access (the sweep-and-write of a run, the sweep of
\* a lookup) the cache has no entry that expired before the time of the
\* access, and the entry a lookup goes on with had not expired when the
\* lookup started.
C20_SweepFirst ==
    [][/\ CacheAccess =>
             \A k \in DOMAIN feedCache' : ~(feedCache'[k].expires < now')
       /\ (LookupStep /\ pc'[GetSlot] = "get.createDeepenDigest") =>
             /\ ~(loc'[GetSlot].entry.expires < now')
             /\ loc'[GetSlot].entry = feedCache[req'[GetSlot].itemId]]_vars

\* a lookup of another id, after the lifetime of a run's entries, emptied the cache
C20_Witness ==
    /\ RunPhase
    /\ Completed(events[PostSlot])
    /\ OfType(events[PostSlot], "feed")[1].items # <<>>
    /\ req[GetSlot].kind = "GET"
    /\ req[GetSlot].itemId = <<"never">>
    /\ resp[GetSlot].status = 404
    /\ now > 15 * 60 * 1000
    /\ feedCache = << >>

(***************************************************************************)
(* Discovery mode and the number of candidates, under DiscoverSpec.        *)
(***************************************************************************)
\* the clustering step returned at least one cluster and all were mapped
ClusterSucceeds ==
    /\ cfg.llm
    /\ fnIn.clusterOut.kind = "json"
    /\ fnIn.clusterOut.candidates # <<>>
    /\ \A i \in 1..Len(fnIn.clusterOut.candidates) : fnIn.clusterOut.candidates[i].typed

\* the merge step returned at least one candidate and all were mapped
MergeSucceeds ==
    /\ cfg.llm
    /\ fnIn.mergeOut.kind = "json"
    /\ fnIn.mergeOut.candidates # <<>>
    /\ \A i \in 1..Len(fnIn.mergeOut.candidates) :
          /\ fnIn.mergeOut.candidates[i].typed
          /\ fnIn.mergeOut.candidates[i].primary_url # NoUrl

\* the distinct usable links of the search response, in order
UsableLinks ==
    LET Usable(u) == u \notin {ULinked, UBad, NoUrl}
    IN Distinct(SelectSeq(fnIn.search.items, Usable), <<>>)

ProfileUrls(candidates) == [i \in 1..Len(candidates) |-> candidates[i].profileUrl]

\* C21: mode is cluster exactly when there are search results and clustering
\* succeeds with a cluster; with results and no clustering the mode is
\* heuristic, with the merged candidates when the merge succeeds with a
\* candidate and one candidate per search-result URL otherwise; mode is
\* fallback exactly when there are no search results.
C21_DiscoveryMode ==
    fnIn.op = "discoverCandidates" =>
        /\ (fnOut.mode = "cluster") <=> (~ZeroResults /\ ClusterSucceeds)
        /\ (fnOut.mode = "fallback") <=> ZeroResults
        /\ (~ZeroResults /\ ~ClusterSucceeds) =>
              /\ fnOut.mode = "heuristic"
              /\ IF MergeSucceeds
                 THEN /\ fnOut.candidates # <<>>
                      /\ \A i \in 1..Len(fnOut.candidates) :
                            \E j \in 1..Len(fnIn.mergeOut.candidates) :
                               fnOut.candidates[i].profileUrl =
                                  fnIn.mergeOut.candidates[j].primary_url
                 ELSE ProfileUrls(fnOut.candidates) = FirstN(UsableLinks, HEURISTIC_CAP)

\* C22: with search results, discoverCandidates returns at most 6 candidates
\* in every path, whatever number of entries the LLM returns.
C22_AtMostSix ==
    (fnIn.op = "discoverCandidates" /\ ~ZeroResults) =>
        Len(fnOut.candidates) <= 6

(***************************************************************************)
(* The batch harvestIdentities returns, under HarvestSpec.                 *)
(***************************************************************************)
\* what one identity URL contributes when harvested alone
HarvestedOf(identity, web) == HarvestLoop(<<identity>>, web, <<>>)

\* every snippet fetched, in fetch order: the identities in turn, then the news
FetchOrder(identities, web) ==
    Flatten([i \in 1..Len(identities) |-> HarvestedOf(identities[i], web)])
    \o harvestNews(web.news)

\* the position at which a url is fetched first
FirstAt(xs, u) ==
    CHOOSE i \in 1..Len(xs) : xs[i].url = u /\ \A j \in 1..(i - 1) : xs[j].url # u

\* C23: the batch has no two snippets with the same url and keeps the one
\* fetched first, has at most 20 snippets, is in fetch order with every identity
\* snippet before every news snippet, lacks only the snippets fetched last,
\* and has at most 6 news snippets.
C23_HarvestBatch ==
    fnIn.op = "harvestIdentities" =>
        LET out     == fnOut.snippets
            fetched == FetchOrder(fnIn.identities, fnIn.web)
            urls    == {fetched[i].url : i \in 1..Len(fetched)}
            at(k)   == FirstAt(fetched, out[k].url)
        IN /\ \A i, j \in 1..Len(out) : i # j => out[i].url # out[j].url
           /\ Len(out) <= 20
           /\ Len(out) = Min(20, Cardinality(urls))
           /\ \A k \in 1..Len(out) :
                 /\ out[k].url \in urls
                 /\ out[k] = fetched[at(k)]
                 /\ \A i \in 1..(at(k) - 1) :
                       \E m \in 1..(k - 1) : out[m].url = fetched[i].url
           /\ \A i, j \in 1..Len(out) :
                 (out[i].source = "news" /\ out[j].source # "news") => j < i
           /\ Cardinality({i \in 1..Len(out) : out[i].source = "news"}) <= 6

\* more than 20 distinct snippets were fetched and the news fetched last were cut
C23_Witness ==
    /\ fnIn.op = "harvestIdentities"
    /\ Len(fnIn.identities) = 17
    /\ Len(FetchOrder(fnIn.identities, fnIn.web)) > 20
    /\ Len(fnOut.snippets) = 20
    /\ fnOut.snippets[20].source = "news"
    /\ fnOut.snippets[1].source = "website"

(***************************************************************************)
(* Harvesting within a run.  The run enters at its await of                 *)
(* harvestIdentities; fnIn holds the identities handed over and what the    *)
(* network answers during the call.                                         *)
(***************************************************************************)
\* handleRun of a POST, up to its await of harvestIdentities (line 2523)
AwaitHarvest ==
    /\ pc[PostSlot] = "idle"
    /\ posts < MaxPosts
    /\ \E identities \in HarvestIdentityLists, web \in HarvestWebs :
          LET r == PostSlot
          IN /\ req' = [req EXCEPT ![r] = [kind |-> "POST", phase |-> "run",
                                           body |-> Body(TRUE, AdaName, TRUE, <<"id">>)]]
             /\ resp' = [resp EXCEPT ![r] = [status |-> 200, error |-> ""]]
             /\ events' = [events EXCEPT ![r] =
                              <<Stage("HarvestPublicData"),
                                Log("Collected linked identities", "",
                                    <<Len(identities)>>, "info"),
                                Log("Harvesting public data", "", <<>>, "info")>>]
             /\ pc' = [pc EXCEPT ![r] = "run.harvestIdentities"]
             /\ loc' = [loc EXCEPT ![r] = [at |-> "harvest", name |-> AdaName,
                                           identitySeed |-> identities]]
             /\ posts' = posts + 1
             /\ fnIn' = [op |-> "harvestIdentities", identities |-> identities, web |-> web]
    /\ UNCHANGED <<cfg, now, ticks, feedCache, closed, fnOut>>

HarvestAnswered ==
    /\ fnIn.op = "harvestIdentities"
    /\ RunHarvestedWith(fnIn.web)

HarvestRunNext == AwaitHarvest \/ HarvestAnswered

HarvestRunSpec == Init /\ [][HarvestRunNext]_vars

\* the urls one identity yields: none when it cannot be parsed, is on the
\* disallowed host, or its fetch fails
ExpectedUrls(identity, web) ==
    IF ~IsParsable(identity) THEN {}
    ELSE IF HostIncludes(toLowerCase(identity.host), GithubHost)
    THEN IF Failed(web.api) \/ identity.path = <<>> THEN {}
         ELSE {Url("https", GithubHost, <<Head(identity.path)>>)}
              \cup {web.api.repos[i].html_url : i \in 1..Len(web.api.repos)}
    ELSE IF HostIncludes(toLowerCase(identity.host), LinkedinHost) THEN {}
    ELSE IF Failed(web.page) THEN {}
    ELSE IF web.page.words = <<>> THEN {}
    ELSE {identity}

ExpectedNewsUrls(web) ==
    IF Failed(web.news) THEN {}
    ELSE {web.news.blocks[i].link : i \in 1..Len(web.news.blocks)} \ {NoUrl}

\* C24: harvesting is best-effort. An identity that cannot be parsed, whose
\* fetch fails, or that is on the disallowed host yields no snippet and no
\* error; the snippets of every other identity are still returned (up to the
\* cap of 20); a failed news search yields none; the run goes on to
\* BuildProfile whatever was harvested, also with no snippet at all.
C24_HarvestBestEffort ==
    /\ pc[PostSlot] \in {"idle", "run.harvestIdentities", "run.buildProfileCard"}
    /\ OfType(events[PostSlot], "error") = <<>>
    /\ ~closed[PostSlot]
    /\ pc[PostSlot] = "run.buildProfileCard" =>
          LET out == loc[PostSlot].snippets
              got == {out[i].url : i \in 1..Len(out)}
              ids == fnIn.identities
              fromIds == UNION {ExpectedUrls(ids[i], fnIn.web) : i \in 1..Len(ids)}
              want == fromIds \cup ExpectedNewsUrls(fnIn.web)
          IN /\ StageStates(events[PostSlot])[Len(StageStates(events[PostSlot]))]
                   = "BuildProfile"
             /\ got \subseteq want
             /\ IF Len(out) < MAX_DOC_SNIPPETS
                THEN fromIds \subseteq got
                ELSE Len(out) = MAX_DOC_SNIPPETS
             /\ \A i \in 1..Len(out) :
                   out[i].source = "website" =>
                      ~HostIncludes(toLowerCase(out[i].url.host), LinkedinHost)

\* after an identity that cannot be parsed and a GitHub request that failed,
\* the website was still harvested and the run reached BuildProfile
C24_Witness ==
    /\ pc[PostSlot] = "run.buildProfileCard"
    /\ fnIn.identities = <<UBad, USite, UGh>>
    /\ Failed(fnIn.web.api)
    /\ \E i \in 1..Len(loc[PostSlot].snippets) : loc[PostSlot].snippets[i].url = USite

(***************************************************************************)
(* The profile an LLM reply yields, within a run.                          *)
(***************************************************************************)
\* the profile cards the run holds after BuildProfile
HeldProfiles ==
    {loc[PostSlot][f] : f \in DOMAIN loc[PostSlot] \cap {"profileCard", "enrichedProfile"}}

\* C25: with an LLM configured, a profile reply that cannot be parsed or that
\* violates the ProfileCard schema yields the deterministic fallback profile:
\* no profile with a missing or mistyped field reaches augmentation, planning
\* or ranking, and no run ends in an error event because of one.
C25_ProfileValidated ==
    /\ \A p \in HeldProfiles : p.defects = {}
    /\ \A i \in 1..Len(events[PostSlot]) :
          events[PostSlot][i].type = "error" =>
             events[PostSlot][i].message # AugmentRaised.message

(***************************************************************************)
(* buildFallbackProfile and buildProfileCard on their own.                 *)
(***************************************************************************)
ProfileSnippets ==
    { Snippet("github", <<"neural", "feed", "Agents">>, UGh),
      Snippet("website", <<"agents", "data_sets", "learning">>, USite),
      Snippet("news", <<"robotics", "agents">>, UBlog) }

MaxDocs == 3

\* nine distinct long words, the ninth three times
NineWords ==
    <<Snippet("website", <<"neural", "agents", "learning", "robotics", "vision",
                           "systems", "models", "graphs", "kernels", "kernels",
                           "kernels">>, USite)>>

ProfileDocs ==
    {NineWords}
    \cup UNION {[1..n -> ProfileSnippets] : n \in 0..MaxDocs}

CallFallbackProfile ==
    /\ fnIn.op = "none"
    /\ \E name \in DiscoverNames, docs \in ProfileDocs :
          /\ fnIn' = [op |-> "buildFallbackProfile", name |-> name, docs |-> docs]
          /\ fnOut' = buildFallbackProfile(name, docs)
    /\ UNCHANGED <<cfg, now, ticks, feedCache, req, pc, loc, events, closed, resp, posts>>

CallProfileCard ==
    /\ fnIn.op = "none"
    /\ \E name \in DiscoverNames, docs \in ProfileDocs, out \in ProfileReplies :
          /\ fnIn' = [op |-> "buildProfileCard", name |-> name, docs |-> docs, out |-> out]
          /\ fnOut' = buildProfileCard(cfg.llm, name, docs, out)
    /\ UNCHANGED <<cfg, now, ticks, feedCache, req, pc, loc, events, closed, resp, posts>>

ProfileNext == CallFallbackProfile \/ CallProfileCard

ProfileSpec == Init /\ [][ProfileNext]_vars

\* the words of more than 4 characters of the snippets, lowercased, in order
LongLowered(docs) ==
    LET words == Flatten([i \in 1..Len(docs) |-> docs[i].words])
        IsLong(w) == w \in LongWords
        long == SelectSeq(words, IsLong)
    IN [i \in 1..Len(long) |-> LowerWord(long[i])]

Occurrences(xs, w) == Cardinality({i \in 1..Len(xs) : xs[i] = w})

\* C26: the keywords of the fallback profile are the 8 most frequent words of
\* more than 4 characters of the snippets, lowercased, underscores replaced by
\* spaces (fewer only when fewer distinct words exist); the preferences are
\* mixed, mixed, medium; the evidence cites the first 3 snippets in order.
C26_FallbackProfile ==
    fnIn.op = "buildFallbackProfile" =>
        LET words  == LongLowered(fnIn.docs)
            all    == Range(words)
            kws    == fnOut.keywords
            chosen == {w \in all : \E i \in 1..Len(kws) : kws[i] = Unscore(w)}
        IN /\ Len(kws) = Min(8, Cardinality(all))
           /\ Cardinality(chosen) = Len(kws)
           /\ \A w \in chosen, v \in all \ chosen :
                 Occurrences(words, w) >= Occurrences(words, v)
           /\ fnOut.preferences = [depth |-> "mixed", format |-> "mixed", novelty |-> "medium"]
           /\ fnOut.evidence = [i \in 1..Min(3, Len(fnIn.docs)) |-> fnIn.docs[i].url]

(***************************************************************************)
(* normalizeKeywordWeights on the weights an LLM returned, under WeightSpec *)
(***************************************************************************)
\* C27: the weights normalizeKeywordWeights returns (in thousandths) sum to
\* 1000 within rounding whenever there are any, for every list of returned
\* weights: all zero, negative, or not finite for some entries.
C27_LlmWeightsNormalized ==
    (fnIn.op = "normalizeKeywordWeights" /\ fnOut.keywordWeights # <<>>) =>
        LET w == fnOut.keywordWeights
            total == Sum([i \in 1..Len(w) |-> w[i].weight])
        IN /\ total >= 1000 - 10
           /\ total <= 1000 + 10

(***************************************************************************)
(* generateSourceQueries on its own, with the collector calls that          *)
(* gatherCandidateContent makes for the plan it returns.                    *)
(***************************************************************************)
\* a profile without keywords, weighted keywords and queries
NoSignalProfile == Profile(<<"a", " ", "profile">>, <<>>, <<>>, <<>>)

PlanProfiles ==
    { NoSignalProfile,
      Profile(<<" ">>, <<>>, <<>>, <<>>),
      Profile(<<"p">>, <<"neural", "agents", "Agents", "vision", "models", "graphs">>,
              << <<"neural", " feeds">>, <<"Agents">>, <<" ">> >>, <<UGh>>),
      [Profile(<<"p">>, <<"neural">>, << <<"neural", " feeds">> >>, <<>>)
          EXCEPT !.keywordWeights = <<Weighted("robotics", 200), Weighted("agents", 800)>>],
      [Profile(<<"p">>, <<"neural">>, <<>>, <<>>) EXCEPT !.defects = {"evidence"},
                                                        !.origin = "llm"] }

SixQueries ==
    << <<"agents">>, <<" ">>, <<"Agents", " ">>, <<"neural", " feeds">>, <<"vision">>,
       <<"models">>, <<"graphs">> >>

PlanCallReplies ==
    { LlmThrow, NoJson, BadJson,
      [kind |-> "json", arxiv |-> <<>>, hn |-> <<>>, news |-> <<>>, typed |-> TRUE],
      [kind |-> "json", arxiv |-> SixQueries, hn |-> << <<"agents">>, <<"Agents">> >>,
       news |-> << <<>>, <<"\t">> >>, typed |-> TRUE],
      [kind |-> "json", arxiv |-> << <<"agents">> >>, hn |-> <<>>, news |-> <<>>,
       typed |-> FALSE] }

\* the collectors gatherCandidateContent starts for the queries of one source
CollectorCalls(plan, source) ==
    LET down == [arxiv |-> <<Throw>>, hn |-> <<Throw>>, news |-> <<Throw>>]
        only == [s \in {"arxiv", "hn", "news"} |-> IF s = source THEN plan[s] ELSE <<>>]
    IN Len(Collectors(TRUE, Plan(only.arxiv, only.hn, only.news), down))

CallPlan ==
    /\ fnIn.op = "none"
    /\ \E profile \in PlanProfiles, out \in PlanCallReplies :
          LET planResult == generateSourceQueries(cfg.llm, profile, out)
          IN /\ fnIn' = [op |-> "generateSourceQueries", profile |-> profile, out |-> out]
             /\ fnOut' = [threw |-> planResult.threw, plan |-> planResult.plan,
                          mode |-> planResult.mode,
                          calls |-> [s \in {"arxiv", "hn", "news"} |->
                                        CollectorCalls(planResult.plan, s)]]
    /\ UNCHANGED <<cfg, now, ticks, feedCache, req, pc, loc, events, closed, resp, posts>>

PlanSpec == Init /\ [][CallPlan]_vars

\* C28: every plan that generateSourceQueries returns, from the LLM or from
\* the fallback, has per source at most 4 queries, none blank, no two equal
\* when compared case-insensitively; the gatherer starts at most 4 collectors
\* per source.
C28_PlanShape ==
    (fnIn.op = "generateSourceQueries" /\ ~fnOut.threw) =>
        \A source \in {"arxiv", "hn", "news"} :
            LET q == fnOut.plan[source]
            IN /\ Len(q) <= 4
               /\ \A i \in 1..Len(q) : \E k \in 1..Len(q[i]) : ~IsSpace(q[i][k])
               /\ \A i, j \in 1..Len(q) :
                     i # j => toLowerCase(trim(q[i])) # toLowerCase(trim(q[j]))
               /\ fnOut.calls[source] <= 4

\* an LLM plan of seven arxiv queries, blank ones and a repeat among them, cut
\* to four
C28_Witness ==
    /\ fnIn.op = "generateSourceQueries"
    /\ fnOut.mode = "llm"
    /\ fnIn.out.arxiv = SixQueries
    /\ Len(fnOut.plan.arxiv) = 4
    /\ fnOut.plan.hn = << <<"agents">> >>
    /\ fnOut.plan.news = <<>>
    /\ fnOut.calls.arxiv = 4

\* no keywords, no weighted keywords, no queries
NoSignal(profile) ==
    profile.keywords = <<>> /\ profile.keywordWeights = <<>> /\ profile.queries = <<>>

\* C29: generateSourceQueries never raises, for any profile and any LLM
\* outcome, and for a profile without signal the plan has for every source at
\* least one query, built from the profile summary alone.
C29_PlannerNeverFails ==
    fnIn.op = "generateSourceQueries" =>
        /\ ~fnOut.threw
        /\ NoSignal(fnIn.profile) =>
              \A source \in {"arxiv", "hn", "news"} :
                 LET q == fnOut.plan[source]
                 IN /\ Len(q) = 1
                    /\ IsPrefix(trim(fnIn.profile.summary), q[1])

(***************************************************************************)
(* The pool gatherCandidateContent returns, under GatherSpec.              *)
(***************************************************************************)
\* every item the collectors returned, in merge order
MergeOrder == Returned("arxiv") \o Returned("hn") \o Returned("news")

\* the position at which an id is merged first
FirstAtId(xs, id) ==
    CHOOSE i \in 1..Len(xs) : xs[i].id = id /\ \A j \in 1..(i - 1) : xs[j].id # id

\* C30: the pool has no two items with the same id and keeps the first one in
\* merge order, has at most 30 items, and lacks only the items merged last:
\* of more than 30 distinct items the first 30 in merge order are kept.
C30_PoolDedupedCapped ==
    fnIn.op = "gatherCandidateContent" =>
        LET out    == fnOut.items
            merged == MergeOrder
            ids    == {merged[i].id : i \in 1..Len(merged)}
            at(k)  == FirstAtId(merged, out[k].id)
        IN /\ \A i, j \in 1..Len(out) : i # j => out[i].id # out[j].id
           /\ Len(out) <= 30
           /\ Len(out) = Min(30, Cardinality(ids))
           /\ \A k \in 1..Len(out) :
                 /\ out[k].id \in ids
                 /\ out[k] = merged[at(k)]
                 /\ \A i \in 1..(at(k) - 1) :
                       \E m \in 1..(k - 1) : out[m].id = merged[i].id

\* 31 distinct ids were collected, one of them twice, and the pool has 30
C30_Witness ==
    /\ fnIn.op = "gatherCandidateContent"
    /\ Cardinality({MergeOrder[i].id : i \in 1..Len(MergeOrder)}) = 31
    /\ Len(MergeOrder) = 32
    /\ Len(fnOut.items) = 30
    /\ fnOut.items[30].source = "news"

(***************************************************************************)
(* The LLM ranking path of rankFeedItems.                                   *)
(***************************************************************************)
\* the candidate of the pool a feed item was built from
FromPool(it, pool) ==
    \E i \in 1..Len(pool) :
        /\ pool[i].id = it.id
        /\ pool[i].source = it.source
        /\ pool[i].url = it.url

CountOf(items, source) ==
    Cardinality({ i \in 1..Len(items) : items[i].source = source })

\* C31: on the LLM ranking path every exploitation item carries the id,
\* source and url of a candidate of the pool (selected ids that match no
\* candidate are discarded), at most 10 selections are kept, and the
\* exploitation list has at most 3 items of any one source.
C31_LlmExploitation ==
    (fnIn.op = "rankFeedItems" /\ fnOut.mode = "llm") =>
        /\ \A i \in 1..Len(fnOut.exploitation) :
              /\ FromPool(fnOut.exploitation[i], fnIn.items)
              /\ \E j \in 1..Len(fnIn.out.top) :
                    fnIn.out.top[j] = fnOut.exploitation[i].id
        /\ Len(fnOut.exploitation) <= 10
        /\ \A source \in {"arxiv", "hn", "news"} :
              CountOf(fnOut.exploitation, source) <= 3

\* C31 without the source cap: what holds of the LLM path
C31_LlmSelection ==
    (fnIn.op = "rankFeedItems" /\ fnOut.mode = "llm") =>
        /\ \A i \in 1..Len(fnOut.exploitation) :
              /\ FromPool(fnOut.exploitation[i], fnIn.items)
              /\ \E j \in 1..Len(fnIn.out.top) :
                    fnIn.out.top[j] = fnOut.exploitation[i].id
        /\ Len(fnOut.exploitation) <= 10

(***************************************************************************)
(* The order rebalanceFeed returns.                                         *)
(***************************************************************************)
\* the positions of the input that hold the first occurrence of their id
FirstOccurrences(items) ==
    { i \in 1..Len(items) : \A j \in 1..(i - 1) : items[j].id # items[i].id }

\* the place of a source in the priority list, 0 for an unlisted source
PriorityOf(source, sources) ==
    IF \E k \in 1..Len(sources) : sources[k] = source
    THEN CHOOSE k \in 1..Len(sources) : sources[k] = source
    ELSE 0

\* how many first occurrences of the source of items[i] come up to i
RankInSource(items, i) ==
    Cardinality({ j \in FirstOccurrences(items) :
                    j <= i /\ items[j].source = items[i].source })

\* 1: within the first k of a listed source, 2: beyond them, 3: unlisted
PhaseOf(items, sources, cap, i) ==
    IF PriorityOf(items[i].source, sources) = 0 THEN 3
    ELSE IF RankInSource(items, i) <= cap THEN 1 ELSE 2

\* position i of the input comes before position j in the output
ComesBefore(items, sources, cap, i, j) ==
    LET pi == PhaseOf(items, sources, cap, i)
        pj == PhaseOf(items, sources, cap, j)
        si == PriorityOf(items[i].source, sources)
        sj == PriorityOf(items[j].source, sources)
    IN \/ pi < pj
       \/ pi = pj /\ si < sj
       \/ pi = pj /\ si = sj /\ i < j

\* C32: rebalanceFeed returns exactly, of the first occurrences of the ids
\* of its input: for each source in priority order its first k items in
\* input order, then per source in priority order its items beyond the
\* k-th, then the items of unlisted sources in input order, the whole
\* truncated to sources.length * k items.
C32_RebalanceOrder ==
    fnIn.op = "rebalanceFeed" =>
        LET items == fnIn.items
            first == FirstOccurrences(items)
            out == fnOut.items
            Place(i) == 1 + Cardinality({ j \in first :
                              ComesBefore(items, fnIn.sources, fnIn.perSourceCap, j, i) })
        IN /\ Len(out) = Min(Cardinality(first), Len(fnIn.sources) * fnIn.perSourceCap)
           /\ \A i \in first : Place(i) <= Len(out) => out[Place(i)] = items[i]

\* an input with a repeated id, more than k items of a listed source, an
\* item of an unlisted source, and more items than the output holds
C32_Witness ==
    /\ fnIn.op = "rebalanceFeed"
    /\ fnIn.sources = <<"hn", "arxiv">> /\ fnIn.perSourceCap = 1
    /\ Cardinality(FirstOccurrences(fnIn.items)) = 3
    /\ Len(fnIn.items) = 4
    /\ fnIn.items[1].source = "site"
    /\ DistinctOf(fnIn.items, "arxiv") = 2
    /\ Len(fnOut.items) = 2
    /\ fnOut.items[1].source = "arxiv" /\ fnOut.items[2].source = "arxiv"

(***************************************************************************)
(* The feed event against the candidate pool.                               *)
(***************************************************************************)
\* C33: in every feed event the id sets of items, explorationItems and
\* remaining are pairwise disjoint, and their union is the id set of the
\* pool of the preceding candidate_pool event (the pool rankFeedItems got).
C33_FeedPartition ==
    fnIn.op = "assembleFeed" =>
        /\ Ids(fnOut.items) \cap Ids(fnOut.exploration) = {}
        /\ Ids(fnOut.items) \cap Ids(fnOut.remaining) = {}
        /\ Ids(fnOut.exploration) \cap Ids(fnOut.remaining) = {}
        /\ Ids(fnOut.items) \cup Ids(fnOut.exploration) \cup Ids(fnOut.remaining)
              = Ids(fnIn.items)

\* C33 without the equality: the three lists are disjoint and hold pool ids
C33_FeedDisjoint ==
    fnIn.op = "assembleFeed" =>
        /\ Ids(fnOut.items) \cap Ids(fnOut.exploration) = {}
        /\ Ids(fnOut.items) \cap Ids(fnOut.remaining) = {}
        /\ Ids(fnOut.exploration) \cap Ids(fnOut.remaining) = {}
        /\ Ids(fnOut.items) \cup Ids(fnOut.exploration) \cup Ids(fnOut.remaining)
              \subseteq Ids(fnIn.items)

\* C34: every exploitation item counted in exploitationCount appears in the
\* items of the feed event, so exploitationCount is at most the number of
\* items delivered, and no exploitation item is displaced by a leftover.
C34_ExploitationDelivered ==
    fnIn.op = "assembleFeed" =>
        /\ Ids(fnOut.exploitation) \subseteq Ids(fnOut.items)
        /\ Len(fnOut.exploitation) <= Len(fnOut.items)
        /\ ~\E i \in 1..Len(fnOut.exploitation), j \in 1..Len(fnOut.items) :
               /\ fnOut.exploitation[i].id \notin Ids(fnOut.items)
               /\ fnOut.items[j].id \in Ids(fnIn.ranking.leftovers)

(***************************************************************************)
(* The cache at the complete event of a run.                                *)
(***************************************************************************)
\* the step of run r that sends feed and complete
RunDelivers(r) == pc[r] = "run.rankFeedItems" /\ pc'[r] = "done"

\* C35: when a run sends complete, the cache holds an unexpired entry for
\* every id of items and explorationItems, with that run's FeedItem, enriched
\* profile and name and one common expiry, the time of the write plus 15
\* minutes; the run wrote no entry for any other id (none for remaining); a
\* lookup right after complete finds the run's entry for exactly these ids.
C35_CompleteCached ==
    [][\A r \in RunSlots :
          RunDelivers(r) =>
             LET feed == OfType(events'[r], "feed")[1]
                 delivered == feed.items \o feed.explorationItems
                 lookup == cleanupFeedCache(feedCache', now')
             IN /\ Completed(events'[r])
                /\ \A i \in 1..Len(delivered) :
                      /\ delivered[i].id \in DOMAIN lookup
                      /\ lookup[delivered[i].id] =
                            CacheEntry(delivered[i], loc[r].enrichedProfile, loc[r].name,
                                       now' + FEED_CACHE_TTL)
                /\ \A k \in DOMAIN feedCache' \ Ids(delivered) :
                      k \in DOMAIN feedCache /\ feedCache'[k] = feedCache[k]
                /\ \A i \in 1..Len(feed.remaining) :
                      feed.remaining[i].id \notin Ids(delivered)
                /\ { k \in DOMAIN lookup : lookup[k].name = loc[r].name }
                      = Ids(delivered)]_vars

\* both runs have delivered; the later one, over the pool of 13, left a
\* remaining candidate without an entry and the other run's entry in place
C35_Witness ==
    /\ pc[PostSlot] = "done" /\ pc[PostSlot2] = "done"
    /\ LET feed == OfType(events[PostSlot], "feed")[1]
       IN /\ Len(feed.items) = 9
          /\ Len(feed.explorationItems) = 2
          /\ feed.remaining # <<>>
          /\ \A k \in DeliveredIds(PostSlot) :
                k \in DOMAIN feedCache /\ feedCache[k].name = RunName(PostSlot)
          /\ \A i \in 1..Len(feed.remaining) :
                feed.remaining[i].id \notin DOMAIN feedCache
    /\ \E k \in DOMAIN feedCache : feedCache[k].name = RunName(PostSlot2)

(***************************************************************************)
(* What a lookup does to the cache.                                         *)
(***************************************************************************)
\* a step in which no POST moves: a step of the GET handler
GetStep ==
    /\ posts' = posts
    /\ \A r \in RunSlots : pc'[r] = pc[r] /\ events'[r] = events[r] /\ loc'[r] = loc[r]

\* C36: a GET never adds an entry, never changes the item, profile, name or
\* expiry of an entry and never extends a lifetime; its only effect on the
\* cache is the removal of the entries that have expired when it sweeps;
\* a GET without an itemId does not touch the cache.
C36_LookupFrame ==
    [][GetStep =>
          /\ DOMAIN feedCache' \subseteq DOMAIN feedCache
          /\ \A k \in DOMAIN feedCache' : feedCache'[k] = feedCache[k]
          /\ \A k \in DOMAIN feedCache :
                k \notin DOMAIN feedCache' <=> feedCache[k].expires < now'
          /\ (pc[GetSlot] \in {"idle", "done"} /\ req'[GetSlot].kind = "GET"
                 /\ req'[GetSlot].itemId = <<>>) => feedCache' = feedCache
          /\ pc[GetSlot] = "get.createDeepenDigest" => feedCache' = feedCache]_vars

\* run A wrote at 0 and run B at 1000; lookups at 900000 and at 901000 took
\* the entries of A away and left those of B as they were written
C36_Witness ==
    /\ pc[PostSlot] = "done" /\ pc[PostSlot2] = "done"
    /\ now = 901000
    /\ req[GetSlot].kind = "GET" /\ req[GetSlot].itemId = <<"arxiv:", "1">>
    /\ pc[GetSlot] = "get.createDeepenDigest"
    /\ loc[GetSlot].entry.name = RunName(PostSlot2)
    /\ \E k \in DeliveredIds(PostSlot) : k \notin DOMAIN feedCache
    /\ feedCache # << >>
    /\ \A k \in DOMAIN feedCache :
          /\ feedCache[k].name = RunName(PostSlot2)
          /\ feedCache[k].expires = 1000 + FEED_CACHE_TTL

(***************************************************************************)
(* Runs that deliver the same id.                                           *)
(***************************************************************************)
\* C37: under any interleaving of runs that deliver the same id, the entry
\* of the id holds the item, profile, name and expiry that one run, the last
\* to write it, wrote together, never a mixture; a lookup goes on with that
\* entry and digests with its profile whichever name the request carries;
\* the expiry of an entry never decreases when it is rewritten.
C37_LastWriterWins ==
    [][/\ \A r \in RunSlots :
             RunDelivers(r) =>
                LET feed == OfType(events'[r], "feed")[1]
                    delivered == feed.items \o feed.explorationItems
                IN \A i \in 1..Len(delivered) :
                      LET k == delivered[i].id
                      IN /\ feedCache'[k] = CacheEntry(delivered[i], RunProfile(r),
                                                       RunName(r), now' + FEED_CACHE_TTL)
                         /\ k \in DOMAIN feedCache =>
                               feedCache'[k].expires >= feedCache[k].expires
       /\ (\A r \in RunSlots : ~RunDelivers(r)) =>
             \A k \in DOMAIN feedCache' :
                k \in DOMAIN feedCache /\ feedCache'[k] = feedCache[k]
       /\ (pc[GetSlot] # "get.createDeepenDigest"
              /\ pc'[GetSlot] = "get.createDeepenDigest") =>
             loc'[GetSlot].entry = feedCache'[req'[GetSlot].itemId]
       /\ (pc[GetSlot] = "get.createDeepenDigest" /\ pc'[GetSlot] = "done") =>
             \E out \in DeepenReplies :
                resp'[GetSlot].digest =
                   createDeepenDigest(cfg.llm, loc[GetSlot].entry.profile,
                                      loc[GetSlot].entry.item, GetName, out)]_vars

\* run A wrote arxiv:1 at 0, run B rewrote it at 1000, and a lookup under a
\* third name holds the entry of B
C37_Witness ==
    /\ pc[PostSlot] = "done" /\ pc[PostSlot2] = "done"
    /\ <<"arxiv:", "1">> \in DeliveredIds(PostSlot) \cap DeliveredIds(PostSlot2)
    /\ feedCache[<<"arxiv:", "1">>].name = RunName(PostSlot2)
    /\ feedCache[<<"arxiv:", "1">>].profile = RunProfile(PostSlot2)
    /\ feedCache[<<"arxiv:", "1">>].expires = 1000 + FEED_CACHE_TTL
    /\ \E k \in DOMAIN feedCache :
          feedCache[k].name = RunName(PostSlot) /\ feedCache[k].expires = FEED_CACHE_TTL
    /\ pc[GetSlot] = "get.createDeepenDigest"
    /\ req[GetSlot].itemId = <<"arxiv:", "1">>
    /\ req[GetSlot].name # RunName(PostSlot2)
    /\ loc[GetSlot].entry = feedCache[<<"arxiv:", "1">>]

(***************************************************************************)
(* A run that ends in an error, next to a run that fills the cache.         *)
(***************************************************************************)
ErrorRunNext ==
    \/ PostRequest
    \/ RunDiscovered
    \/ RunResolved
    \/ RunHarvested
    \/ RunProfileBuilt
    \/ RunAugmented
    \/ RunPlanned
    \/ RunGathered
    \/ RunRanked
    \/ AwaitRank(PostSlot2)
    \/ RunRankedAt(PostSlot2)

ErrorRunSpec == Init /\ [][ErrorRunNext]_vars

\* a step of the POST in the first slot
PostStep == pc'[PostSlot] # pc[PostSlot] \/ events'[PostSlot] # events[PostSlot]

\* C38: a run that ends with an error event (candidateId missing, no
\* candidate of that id, an exception in a stage up to ranking) makes no
\* cache access: none of its steps changes the cache, so no earlier entry is
\* removed or altered; the only step of a run that changes the cache sends
\* complete, and a run with an error event has not taken it.
C38_ErrorRunFrame ==
    [][/\ (PostStep /\ ~(RunDelivers(PostSlot) /\ Completed(events'[PostSlot])))
             => feedCache' = feedCache
       /\ OfType(events'[PostSlot], "error") # <<>> =>
             /\ pc'[PostSlot] = "done"
             /\ OfType(events'[PostSlot], "feed") = <<>>
             /\ ~Completed(events'[PostSlot])
             /\ PostStep => feedCache' = feedCache]_vars

\* a run failed in a stage after its profile was built, and the cache holds
\* every entry another run wrote
C38_Witness ==
    /\ pc[PostSlot] = "done"
    /\ OfType(events[PostSlot], "error") # <<>>
    /\ Len(StageStates(events[PostSlot])) >= 3
    /\ pc[PostSlot2] = "done"
    /\ DeliveredIds(PostSlot2) # {}
    /\ DOMAIN feedCache = DeliveredIds(PostSlot2)
    /\ \A k \in DOMAIN feedCache : feedCache[k].name = RunName(PostSlot2)

(***************************************************************************)
(* gatherCandidateContent with its collectors settling one at a time, in   *)
(* any order.                                                               *)
(***************************************************************************)
Pending == [status |-> "pending"]

\* the outcome lands in the place of the first promise still pending
SettleAtMutant(results, i, outcome) ==
    LET first == CHOOSE j \in 1..Len(results) :
                    /\ results[j] = Pending
                    /\ \A k \in 1..(j - 1) : results[k] # Pending
    IN [results EXCEPT ![first] = outcome]

\* Promise.allSettled: the outcome of the i-th promise is the i-th result
SettleAt(results, i, outcome) == [results EXCEPT ![i] = outcome]

\* the plans of up to two queries a source under every upstream, and the
\* plan of four queries a source under the upstream that fills the pool
OrderInputs ==
    { <<planResult, upstream>> :
        planResult \in { pr \in GatherPlans : Len(pr.plan.arxiv) <= 2 },
        upstream \in GatherUpstreams }
    \cup { <<PlanResult(Plan(FourQueries, FourQueries, FourQueries), "llm"), BigUpstream>> }

\* lines 2129-2144: the collectors are started and awaited together
GatherStarted ==
    /\ fnIn.op = "none"
    /\ \E input \in OrderInputs :
          LET n == Len(Collectors(cfg.search, input[1].plan, input[2]))
          IN fnIn' = [op |-> "allSettled", planResult |-> input[1], upstream |-> input[2],
                      results |-> [i \in 1..n |-> Pending], inOrder |-> TRUE]
    /\ UNCHANGED <<cfg, now, ticks, feedCache, req, pc, loc, events, closed, resp, posts,
                   fnOut>>

\* one collector settles; inOrder records whether every collector so far
\* settled after all the collectors ahead of it in the plan
CollectorSettles ==
    /\ fnIn.op = "allSettled"
    /\ \E i \in 1..Len(fnIn.results) :
          /\ fnIn.results[i] = Pending
          /\ fnIn' = [fnIn EXCEPT
                         !.results = SettleAt(@, i,
                                        Collectors(cfg.search, fnIn.planResult.plan,
                                                   fnIn.upstream)[i]),
                         !.inOrder = @ /\ \A j \in 1..(i - 1) : fnIn.results[j] # Pending]
    /\ UNCHANGED <<cfg, now, ticks, feedCache, req, pc, loc, events, closed, resp, posts,
                   fnOut>>

\* lines 2145-2163: every collector has settled; the merge, the cap, the return
GatherMerged ==
    /\ fnIn.op = "allSettled"
    /\ \A i \in 1..Len(fnIn.results) : fnIn.results[i] # Pending
    /\ fnIn' = [fnIn EXCEPT !.op = "gatherSettled"]
    /\ fnOut' = [threw |-> FALSE,
                 items |-> FirstN(MergeSettled(fnIn.results, <<>>), CANDIDATE_TARGET),
                 plan  |-> fnIn.planResult.plan,
                 mode  |-> fnIn.planResult.mode]
    /\ UNCHANGED <<cfg, now, ticks, feedCache, req, pc, loc, events, closed, resp, posts>>

GatherOrderNext == GatherStarted \/ CollectorSettles \/ GatherMerged

GatherOrderSpec == Init /\ [][GatherOrderNext]_vars

\* C39: the pool does not depend on the order in which the concurrent
\* collectors complete: the results are merged in plan order (arxiv, hn,
\* news, each in query order), so every interleaving gives the pool, with
\* the same dedupe and the same cap, that the plan and the answers determine.
C39_OrderIndependent ==
    fnIn.op = "gatherSettled" =>
        /\ fnIn.results = Collectors(cfg.search, fnIn.planResult.plan, fnIn.upstream)
        /\ fnOut = gatherCandidateContent(cfg.search, fnIn.planResult, fnIn.upstream)
        /\ fnOut.items = FirstN(AddUnseenIds(<<>>, MergeOrder), CANDIDATE_TARGET)

\* twelve collectors settled out of plan order; the merge dropped the ids
\* that came twice and cut the pool at 30
C39_Witness ==
    /\ fnIn.op = "gatherSettled"
    /\ ~fnIn.inOrder
    /\ Len(fnIn.results) = 12
    /\ Len(MergeOrder) > Len(AddUnseenIds(<<>>, MergeOrder))
    /\ Len(AddUnseenIds(<<>>, MergeOrder)) > CANDIDATE_TARGET
    /\ Len(fnOut.items) = CANDIDATE_TARGET

(***************************************************************************)
(* rebalanceFeed applied to its own output.                                 *)
(***************************************************************************)
\* C40: rebalanceFeed is idempotent for fixed sources and cap: applied to
\* its own output it returns that output (so does the exploitation list of
\* rankFeedItems, an output for the default sources and cap 3).
C40_RebalanceIdempotent ==
    /\ fnIn.op = "rebalanceFeed" =>
          rebalanceFeed(fnOut.items, fnIn.sources, fnIn.perSourceCap) = fnOut.items
    /\ fnIn.op = "rankFeedItems" =>
          rebalanceFeed(fnOut.exploitation, DefaultSources, 3) = fnOut.exploitation

\* the first pass dropped a repeated id, moved an item of an unlisted source
\* behind the others and cut the list
C40_Witness ==
    /\ fnIn.op = "rebalanceFeed"
    /\ fnIn.sources = DefaultSources /\ fnIn.perSourceCap = 1
    /\ Len(fnIn.items) = 4
    /\ Cardinality(FirstOccurrences(fnIn.items)) = 3
    /\ fnIn.items[1].source = "site"
    /\ Len(fnOut.items) = 3
    /\ fnOut.items[1].source = "arxiv" /\ fnOut.items[2].source = "hn"
    /\ fnOut.items[3].source = "site"
    /\ fnOut.items # FirstN(fnIn.items, 3)

====
